---- MODULE Spec2Model ----
(***************************************************************************)
(* Verification model of quvis: the slice scheduler, the routing          *)
(* classifier / overhead analyzer, and their DAG-layering counterpart.    *)
(*                                                                         *)
(* A circuit (qiskit QuantumCircuit) is a record                           *)
(*   [qubits |-> sequence of Qubit objects, data |-> sequence of           *)
(*    instructions [name |-> gate name, qubits |-> Qubit objects]].        *)
(* A Qubit object is a record [register, index]; a gate name is a          *)
(* sequence of one-character strings, so that str.lower() is computed.     *)
(***************************************************************************)
EXTENDS Integers, Sequences, FiniteSets, TLC

VARIABLES
    circuit,              \* the logical circuit handed to the playground
    transpiled_circuit,   \* what transpile(circuit, ...) returns for it
    pc,                   \* "build", "processed" or "done"
    compiled_circuit_data,\* outcome of _process_compiled_circuit
    generator_slices,     \* outcome of compiler_utils.extract_operations_per_slice
    logical_circuit_data, \* outcome of _process_logical_circuit
    topo_call,            \* the topology generator called and its argument
    topo_result,          \* outcome of that call
    circuits,             \* QuvisVisualizer.circuits
    last_call,            \* the QuvisVisualizer method called last
    last_args,            \* the arguments of that call
    viz_result,           \* outcome of that call
    launched_data,        \* what that call handed to _launch_visualization
    added,                \* the add_circuit calls made since the last clear
    launch_pc,            \* position inside _launch_visualization
    written,              \* how far this call got in writing the data file
    data_file,            \* temp_circuit_data.json: "absent" or "exists"
    process,              \* the development server started by this call
    attempt,              \* iterations of the readiness loop completed
    server_ready,         \* the port answered during the readiness loop
    file_accessible       \* the server served the data file

topo_vars == <<topo_call, topo_result>>

viz_vars == <<circuits, last_call, last_args, viz_result, launched_data, added>>

launch_vars == <<launch_pc, written, data_file, process, attempt, server_ready,
                 file_accessible>>

vars == <<circuit, transpiled_circuit, pc, compiled_circuit_data, generator_slices,
          logical_circuit_data, topo_call, topo_result,
          circuits, last_call, last_args, viz_result, launched_data, added,
          launch_pc, written, data_file, process, attempt, server_ready,
          file_accessible>>

\* ------------------------------------------------------------------ bounds
MaxQubits == 2
MaxOps == 3

\* ------------------------------------------------------------ value model
Range(s) == {s[i] : i \in 1..Len(s)}

Max(S) == CHOOSE m \in S : \A x \in S : x <= m

\* python str.lower() on one ASCII character
LowerChar(c) ==
    CASE c = "S" -> "s"
      [] c = "W" -> "w"
      [] c = "A" -> "a"
      [] c = "P" -> "p"
      [] c = "I" -> "i"
      [] c = "B" -> "b"
      [] c = "C" -> "c"
      [] c = "X" -> "x"
      [] c = "H" -> "h"
      [] OTHER -> c

\* python str.lower()
Lower(name) == [i \in 1..Len(name) |-> LowerChar(name[i])]

\* a Qubit object of the circuit's own register
Qubit(i) == [register |-> "q", index |-> i]

\* a Qubit object that belongs to no register of the circuit
ForeignQubit == [register |-> "anc", index |-> 0]

\* QuantumCircuit(n): n qubits, no instruction
QuantumCircuit(n) == [qubits |-> [i \in 1..n |-> Qubit(i - 1)], data |-> <<>>]

\* gate names the model appends (logical gates) and inserts (routing)
GateNames1 == {<<"h">>}
GateNames2 == {<<"c", "x">>}
RoutingGateNames == {<<"s", "w", "a", "p">>, <<"S", "w", "a", "p">>,
                     <<"i", "s", "w", "a", "p">>,
                     <<"b", "r", "i", "d", "g", "e">>}

\* qubit arguments of a one-qubit gate: each qubit of the circuit, or a
\* Qubit object the circuit does not own
QubitArgs1(qc) == {<<q>> : q \in Range(qc.qubits) \cup {ForeignQubit}}

\* pairs of the circuit's own qubits, each listed once
OwnPairs(qc) ==
    {p \in Range(qc.qubits) \X Range(qc.qubits) : p[1].index < p[2].index}

\* qubit arguments of a two-qubit gate: a pair of the circuit's qubits, or
\* its first qubit with a Qubit object the circuit does not own
QubitArgs2(qc) == OwnPairs(qc) \cup {<<qc.qubits[1], ForeignQubit>>}

\* ------------------------------------------------- python call outcomes
Return(v) == [raised |-> "none", value |-> v]
Raise(e) == [raised |-> e, value |-> <<>>]

\* ------------------------------------------ compiler/utils.py: scheduler
\* {qubit: i for i, qubit in enumerate(qc.qubits)}
QubitIndices(qc) ==
    [q \in Range(qc.qubits) |->
        (CHOOSE i \in 1..Len(qc.qubits) : qc.qubits[i] = q) - 1]

\* [qubit_indices[q] for q in instruction.qubits]; a missing key is a KeyError
HasKeyError(qc, instruction) ==
    \E k \in 1..Len(instruction.qubits) :
        instruction.qubits[k] \notin DOMAIN QubitIndices(qc)

OpQubits(qc, instruction) ==
    [k \in 1..Len(instruction.qubits) |-> QubitIndices(qc)[instruction.qubits[k]]]

\* the for-loop of extract_operations_per_slice_optimized from instruction i on
RECURSIVE ExtractLoop(_, _, _)
ExtractLoop(qc, i, operations_per_slice) ==
    IF i > Len(qc.data) THEN Return(operations_per_slice)
    ELSE LET instruction == qc.data[i] IN
         IF HasKeyError(qc, instruction) THEN Raise("KeyError")
         ELSE LET slice_ops == <<[name |-> instruction.name,
                                  qubits |-> OpQubits(qc, instruction)]>>
              IN ExtractLoop(qc, i + 1, Append(operations_per_slice, slice_ops))

\* variant: every operation is appended to one shared slice
extract_operations_per_slice_shared_slice(qc) ==
    LET r == ExtractLoop(qc, 1, <<>>) IN
    IF r.raised # "none" \/ r.value = <<>> THEN r
    ELSE Return(<<[i \in 1..Len(r.value) |-> r.value[i][1]]>>)

\* variant: the result list starts out holding an empty slice
extract_operations_per_slice_preallocated(qc) == ExtractLoop(qc, 1, <<<<>>>>)

\* variant: an instruction on an unknown qubit is skipped instead of raising
extract_operations_per_slice_skip_unknown(qc) ==
    LET known == SelectSeq(qc.data, LAMBDA instruction : ~HasKeyError(qc, instruction))
    IN Return([i \in 1..Len(known) |->
                  <<[name |-> known[i].name, qubits |-> OpQubits(qc, known[i])]>>])

\* variant: an operation equal to the one just sliced is not sliced again
extract_operations_per_slice_merge_repeated(qc) ==
    LET r == ExtractLoop(qc, 1, <<>>) IN
    IF r.raised # "none" THEN r
    ELSE Return(SelectSeq([i \in 1..Len(r.value) |->
                              IF i > 1 /\ r.value[i] = r.value[i - 1]
                              THEN <<>> ELSE r.value[i]],
                          LAMBDA slice_ops : slice_ops # <<>>))

extract_operations_per_slice_optimized(qc) == ExtractLoop(qc, 1, <<>>)

\* compatibility entry point: delegates to the optimized version
extract_operations_per_slice(qc) == extract_operations_per_slice_optimized(qc)

\* ---------------------------------- compiler/utils.py: routing extractor
routing_op_names == {<<"s", "w", "a", "p">>, <<"b", "r", "i", "d", "g", "e">>,
                     <<"i", "s", "w", "a", "p">>}

SwapName == <<"s", "w", "a", "p">>

\* first loop: sparse list of (slice_idx, [routing_op]), swap count, depth;
\* i is the 1-based position, slice_idx = i - 1
RECURSIVE RoutingScan(_, _, _, _, _)
RoutingScan(qc, i, routing_operations, total_swap_count, max_routing_depth) ==
    IF i > Len(qc.data)
    THEN Return(<<routing_operations, total_swap_count, max_routing_depth>>)
    ELSE LET instruction == qc.data[i]
             slice_idx == i - 1
             op_name == Lower(instruction.name)
         IN IF op_name \in routing_op_names
            THEN IF HasKeyError(qc, instruction) THEN Raise("KeyError")
                 ELSE LET routing_op ==
                              [name |-> instruction.name,
                               qubits |-> OpQubits(qc, instruction),
                               routing_type |-> IF op_name = SwapName
                                                THEN "swap" ELSE "other"]
                      IN RoutingScan(qc, i + 1,
                             Append(routing_operations, <<slice_idx, <<routing_op>>>>),
                             IF op_name = SwapName THEN total_swap_count + 1
                                                   ELSE total_swap_count,
                             slice_idx + 1)
            ELSE RoutingScan(qc, i + 1, routing_operations,
                             total_swap_count, max_routing_depth)

\* second loop: sparse to dense, one entry per instruction of qc.data
RECURSIVE RoutingDense(_, _, _, _, _)
RoutingDense(n, routing_operations, slice_idx, routing_idx, routing_ops_per_slice) ==
    IF slice_idx >= n THEN routing_ops_per_slice
    ELSE IF routing_idx < Len(routing_operations)
            /\ routing_operations[routing_idx + 1][1] = slice_idx
         THEN RoutingDense(n, routing_operations, slice_idx + 1, routing_idx + 1,
                  Append(routing_ops_per_slice, routing_operations[routing_idx + 1][2]))
         ELSE RoutingDense(n, routing_operations, slice_idx + 1, routing_idx,
                  Append(routing_ops_per_slice, <<>>))

\* variant: the sparse list is returned without the empty placeholder slices
extract_routing_operations_per_slice_sparse_only(qc) ==
    LET scan == RoutingScan(qc, 1, <<>>, 0, 0) IN
    IF scan.raised # "none" THEN scan
    ELSE Return(<<[k \in 1..Len(scan.value[1]) |-> scan.value[1][k][2]],
                  scan.value[2], scan.value[3]>>)

\* variant: every routing operation is counted as a swap
extract_routing_operations_per_slice_count_all(qc) ==
    LET scan == RoutingScan(qc, 1, <<>>, 0, 0) IN
    IF scan.raised # "none" THEN scan
    ELSE Return(<<RoutingDense(Len(qc.data), scan.value[1], 0, 0, <<>>),
                  Len(scan.value[1]), scan.value[3]>>)

\* variant: the depth is the slice index of the last routing operation,
\* without the + 1
extract_routing_operations_per_slice_depth_index(qc) ==
    LET scan == RoutingScan(qc, 1, <<>>, 0, 0) IN
    IF scan.raised # "none" THEN scan
    ELSE Return(<<RoutingDense(Len(qc.data), scan.value[1], 0, 0, <<>>),
                  scan.value[2], Max({0, scan.value[3] - 1})>>)

extract_routing_operations_per_slice_optimized(qc) ==
    LET scan == RoutingScan(qc, 1, <<>>, 0, 0) IN
    IF scan.raised # "none" THEN scan
    ELSE Return(<<RoutingDense(Len(qc.data), scan.value[1], 0, 0, <<>>),
                  scan.value[2], scan.value[3]>>)

extract_routing_operations_per_slice(qc) ==
    extract_routing_operations_per_slice_optimized(qc)

\* extract_routing_operations_sparse(qc): the routing operations with their
\* positions, the swap count, and the last position + 1 (0 if none)
extract_routing_operations_sparse(qc) ==
    LET scan == RoutingScan(qc, 1, <<>>, 0, 0) IN
    IF scan.raised # "none" THEN scan
    ELSE LET routing_operations ==
                 [k \in 1..Len(scan.value[1]) |->
                     [slice_index |-> scan.value[1][k][1],
                      name |-> scan.value[1][k][2][1].name,
                      qubits |-> scan.value[1][k][2][1].qubits,
                      routing_type |-> scan.value[1][k][2][1].routing_type]]
             routing_depth ==
                 IF routing_operations # <<>>
                 THEN routing_operations[Len(routing_operations)].slice_index + 1
                 ELSE 0
         IN Return(<<routing_operations, scan.value[2], routing_depth>>)

\* ---------------------------------- compiler/utils.py: overhead analyzer
\* the counting loop over compiled_circuit.data from instruction i on;
\* yields <<routing_op_count, swap_count>>
RECURSIVE RoutingCount(_, _, _, _)
RoutingCount(data, i, routing_op_count, swap_count) ==
    IF i > Len(data) THEN <<routing_op_count, swap_count>>
    ELSE LET op_name == Lower(data[i].name) IN
         IF op_name \in routing_op_names
         THEN RoutingCount(data, i + 1, routing_op_count + 1,
                           IF op_name = SwapName THEN swap_count + 1 ELSE swap_count)
         ELSE RoutingCount(data, i + 1, routing_op_count, swap_count)

\* variant: the ratio is not scaled to a percentage
PercentageUnscaled(a, b) == IF b > 0 THEN [num |-> a, den |-> b]
                                     ELSE [num |-> 0, den |-> 1]

\* a / b * 100 kept as the exact fraction num / den (0 when b = 0)
Percentage(a, b) == IF b > 0 THEN [num |-> a * 100, den |-> b]
                             ELSE [num |-> 0, den |-> 1]

\* dag.layers(): an op node lies one layer after the latest of its
\* predecessors, the previous op node on each of its wires (layer 0 holds
\* the wires' input nodes)
RECURSIVE DagLayerOf(_, _)
DagLayerOf(data, i) ==
    1 + Max({0} \cup {DagLayerOf(data, j) : j \in {k \in 1..(i - 1) :
                        Range(data[k].qubits) \cap Range(data[i].qubits) # {}}})

\* variant: depth is the circuit depth (longest dependency chain) instead
\* of the instruction count
analyze_routing_overhead_circuit_depth(logical_circuit, compiled_circuit) ==
    LET logical_depth ==
            Max({0} \cup {DagLayerOf(logical_circuit.data, i) :
                              i \in 1..Len(logical_circuit.data)})
        compiled_depth ==
            Max({0} \cup {DagLayerOf(compiled_circuit.data, i) :
                              i \in 1..Len(compiled_circuit.data)})
        counts == RoutingCount(compiled_circuit.data, 1, 0, 0)
    IN Return([logical_depth |-> logical_depth,
               compiled_depth |-> compiled_depth,
               routing_overhead_depth |-> Max({0, compiled_depth - logical_depth}),
               logical_op_count |-> Len(logical_circuit.data),
               compiled_op_count |-> Len(compiled_circuit.data),
               routing_op_count |-> counts[1],
               swap_count |-> counts[2],
               routing_depth |-> compiled_depth,
               routing_overhead_percentage |->
                   Percentage(counts[1], Len(compiled_circuit.data))])

\* variant: the name is matched without .lower()
analyze_routing_overhead_case_sensitive(logical_circuit, compiled_circuit) ==
    LET data == compiled_circuit.data
        routing_op_count ==
            Cardinality({i \in 1..Len(data) : data[i].name \in routing_op_names})
        swap_count == Cardinality({i \in 1..Len(data) : data[i].name = SwapName})
    IN Return([logical_depth |-> Len(logical_circuit.data),
               compiled_depth |-> Len(data),
               routing_overhead_depth |-> Max({0, Len(data) - Len(logical_circuit.data)}),
               logical_op_count |-> Len(logical_circuit.data),
               compiled_op_count |-> Len(data),
               routing_op_count |-> routing_op_count,
               swap_count |-> swap_count,
               routing_depth |-> Len(data),
               routing_overhead_percentage |-> Percentage(routing_op_count, Len(data))])

analyze_routing_overhead_optimized(logical_circuit, compiled_circuit) ==
    LET logical_depth == Len(logical_circuit.data)
        compiled_depth == Len(compiled_circuit.data)
        logical_op_count == Len(logical_circuit.data)
        compiled_op_count == Len(compiled_circuit.data)
        counts == RoutingCount(compiled_circuit.data, 1, 0, 0)
    IN Return([logical_depth |-> logical_depth,
               compiled_depth |-> compiled_depth,
               routing_overhead_depth |-> Max({0, compiled_depth - logical_depth}),
               logical_op_count |-> logical_op_count,
               compiled_op_count |-> compiled_op_count,
               routing_op_count |-> counts[1],
               swap_count |-> counts[2],
               routing_depth |-> compiled_depth,
               routing_overhead_percentage |-> Percentage(counts[1], compiled_op_count)])

analyze_routing_overhead(logical_circuit, compiled_circuit) ==
    analyze_routing_overhead_optimized(logical_circuit, compiled_circuit)

\* ------------------- quvis-algorithm-generator/compiler_utils.py: DAG path
\* the layer of every op node, in program order: one more than the deepest
\* layer among the earlier nodes that share a qubit with it
RECURSIVE DagLayersFrom(_, _)
DagLayersFrom(data, layers) ==
    IF Len(layers) >= Len(data) THEN layers
    ELSE LET i == Len(layers) + 1
             layer == 1 + Max({0} \cup {layers[k] : k \in {k \in 1..(i - 1) :
                         Range(data[k].qubits) \cap Range(data[i].qubits) # {}}})
         IN DagLayersFrom(data, Append(layers, layer))

\* the op nodes of one layer, in node-id (program) order
DagLayerOps(qc, layers, layer) ==
    LET nodes == SelectSeq([i \in 1..Len(qc.data) |-> i],
                           LAMBDA i : layers[i] = layer)
    IN [k \in 1..Len(nodes) |->
           [name |-> qc.data[nodes[k]].name,
            qubits |-> OpQubits(qc, qc.data[nodes[k]])]]

\* the loop over dag.layers(), keeping the non-empty slice_ops
RECURSIVE DagSlices(_, _, _, _)
DagSlices(qc, layers, layer, operations_per_slice) ==
    LET slice_ops == DagLayerOps(qc, layers, layer) IN
    IF slice_ops = <<>> THEN operations_per_slice
    ELSE DagSlices(qc, layers, layer + 1, Append(operations_per_slice, slice_ops))

\* circuit_to_dag rejects an instruction on a qubit the circuit does not own
dag_extract_operations_per_slice(qc) ==
    IF \E i \in 1..Len(qc.data) : HasKeyError(qc, qc.data[i])
    THEN Raise("DAGCircuitError")
    ELSE LET layers == DagLayersFrom(qc.data, <<>>)
         IN Return(DagSlices(qc, layers, 1, <<>>))

\* ------------------------------------------------------------ the program
\* a call that has not been made
NotCalled == [raised |-> "not called", value |-> <<>>]

\* no topology generator has been called
TopoIdle == topo_call = [creator |-> "none", args |-> <<>>] /\ topo_result = NotCalled

\* _launch_visualization has not been called
LaunchIdle ==
    /\ launch_pc = "idle"
    /\ written = "no"
    /\ data_file = "absent"
    /\ process = "none"
    /\ attempt = 0
    /\ server_ready = FALSE
    /\ file_accessible = FALSE

\* a fresh QuvisVisualizer
VizIdle ==
    /\ circuits = <<>>
    /\ last_call = "__init__"
    /\ last_args = <<>>
    /\ viz_result = NotCalled
    /\ launched_data = NotCalled
    /\ added = <<>>

Init ==
    /\ \E n \in 1..MaxQubits :
          /\ circuit = QuantumCircuit(n)
          /\ transpiled_circuit = QuantumCircuit(n)
    /\ pc = "build"
    /\ compiled_circuit_data = NotCalled
    /\ generator_slices = NotCalled
    /\ logical_circuit_data = NotCalled
    /\ TopoIdle
    /\ VizIdle
    /\ LaunchIdle

\* QuantumCircuit.append of a logical gate; the compiler keeps it
AppendGate(name, qubits) ==
    /\ pc = "build"
    /\ Len(transpiled_circuit.data) < MaxOps
    /\ circuit' = [circuit EXCEPT !.data = Append(@, [name |-> name, qubits |-> qubits])]
    /\ transpiled_circuit' = [transpiled_circuit EXCEPT
                                 !.data = Append(@, [name |-> name, qubits |-> qubits])]
    /\ UNCHANGED <<pc, compiled_circuit_data, generator_slices, logical_circuit_data>>
    /\ UNCHANGED <<topo_vars, viz_vars, launch_vars>>

\* the compiler inserts a routing operation into the transpiled circuit only
InsertRouting(name, qubits) ==
    /\ pc = "build"
    /\ Len(transpiled_circuit.data) < MaxOps
    /\ transpiled_circuit' = [transpiled_circuit EXCEPT
                                 !.data = Append(@, [name |-> name, qubits |-> qubits])]
    /\ UNCHANGED <<circuit, pc, compiled_circuit_data, generator_slices,
                   logical_circuit_data>>
    /\ UNCHANGED <<topo_vars, viz_vars, launch_vars>>

\* PlaygroundAPI._process_compiled_circuit after transpile: the first call
\* that raises ends the handler
ProcessCompiledCircuitResult(logical, transpiled) ==
    LET slices == extract_operations_per_slice(transpiled)
        routing == extract_routing_operations_per_slice(transpiled)
        routing_analysis == analyze_routing_overhead(logical, transpiled)
    IN IF slices.raised # "none" THEN Raise(slices.raised)
       ELSE IF routing.raised # "none" THEN Raise(routing.raised)
       ELSE IF routing_analysis.raised # "none" THEN Raise(routing_analysis.raised)
       ELSE Return(
          [circuit_info |->
              [num_qubits |-> Len(transpiled.qubits),
               compiled_interaction_graph_ops_per_slice |-> slices.value],
           routing_info |->
              [num_qubits |-> Len(transpiled.qubits),
               routing_ops_per_slice |-> routing.value[1],
               total_swap_count |-> routing.value[2],
               routing_depth |-> routing.value[3]],
           circuit_type |-> "compiled",
           routing_analysis |-> routing_analysis.value,
           circuit_stats |->
              [original_gates |-> Len(logical.data),
               transpiled_gates |-> Len(transpiled.data),
               depth |-> Len(slices.value),
               qubits |-> Len(transpiled.qubits),
               swap_count |-> routing.value[2]]])

\* PlaygroundAPI._process_logical_circuit on the (decomposed) logical circuit
ProcessLogicalCircuitResult(logical) ==
    LET slices == extract_operations_per_slice(logical) IN
    IF slices.raised # "none" THEN Raise(slices.raised)
    ELSE Return(
       [circuit_info |->
           [num_qubits |-> Len(logical.qubits),
            interaction_graph_ops_per_slice |-> slices.value],
        device_info |->
           [source_coupling_map_file |-> "playground_logical",
            topology_type |-> "logical",
            num_qubits_on_device |-> Len(logical.qubits),
            connectivity_graph_coupling_map |-> <<>>],
        circuit_type |-> "logical",
        circuit_stats |->
           [original_gates |-> Len(logical.data),
            depth |-> Len(slices.value),
            qubits |-> Len(logical.qubits)]])

\* generate_visualization_data: the logical circuit is processed, then the
\* compiled one; an exception of the first call leaves the second unmade
ProcessCompiledCircuit ==
    /\ pc = "build"
    /\ pc' = "processed"
    /\ LET logical == ProcessLogicalCircuitResult(circuit) IN
          /\ logical_circuit_data' = logical
          /\ compiled_circuit_data' =
                IF logical.raised # "none"
                THEN Raise(logical.raised)
                ELSE ProcessCompiledCircuitResult(circuit, transpiled_circuit)
    /\ UNCHANGED <<circuit, transpiled_circuit, generator_slices>>
    /\ UNCHANGED <<topo_vars, viz_vars, launch_vars>>

\* a generator script slices the same transpiled circuit through the DAG path
GeneratorExtract ==
    /\ pc = "processed"
    /\ pc' = "done"
    /\ generator_slices' = dag_extract_operations_per_slice(transpiled_circuit)
    /\ UNCHANGED <<circuit, transpiled_circuit, compiled_circuit_data,
                   logical_circuit_data>>
    /\ UNCHANGED <<topo_vars, viz_vars, launch_vars>>

Next ==
    \/ \E name \in GateNames1, qubits \in QubitArgs1(transpiled_circuit) :
          AppendGate(name, qubits)
    \/ \E name \in GateNames2, qubits \in QubitArgs2(transpiled_circuit) :
          AppendGate(name, qubits)
    \/ \E name \in RoutingGateNames, qubits \in OwnPairs(transpiled_circuit) :
          InsertRouting(name, qubits)
    \/ ProcessCompiledCircuit
    \/ GeneratorExtract

Spec == Init /\ [][Next]_vars

\* ------------------------------------- topologies: bounds and value model
MaxTopoQubits == 40
MaxGridSide == 4
MaxDistance == 5

\* requested sizes, malformed ones (0 and -1) included
TopoSizes == (0 - 1)..MaxTopoQubits

\* int(x ** 0.5) for x >= 0
Isqrt(x) == CHOOSE r \in 0..x : r * r <= x /\ x < (r + 1) * (r + 1)

\* math.ceil(math.sqrt(x)) for x >= 0
CeilSqrt(x) == CHOOSE r \in 0..x : r * r >= x /\ (r = 0 \/ (r - 1) * (r - 1) < x)

\* CouplingMap.size() of CouplingMap.from_heavy_hex(distance):
\* (5 d^2 - 2 d - 1) / 2, i.e. 1, 19, 57, ... for d = 1, 3, 5, ...
HeavyHexSize(distance) == (5 * distance * distance - 2 * distance - 1) \div 2

\* CouplingMap.from_line(n): a bidirectional path
from_line(n) ==
    [edges |-> {<<i, i + 1>> : i \in 0..(n - 2)} \cup {<<i + 1, i>> : i \in 0..(n - 2)},
     num_qubits |-> n]

\* CouplingMap.from_ring(n): the path closed by the edge between n-1 and 0
from_ring(n) ==
    [edges |-> {<<i, (i + 1) % n>> : i \in 0..(n - 1)}
                 \cup {<<(i + 1) % n, i>> : i \in 0..(n - 1)},
     num_qubits |-> n]

\* CouplingMap.from_grid(rows, cols): row-major numbering, both directions
from_grid(rows, cols) ==
    LET right == {<<i, i + 1>> : i \in {k \in 0..(rows * cols - 1) : k % cols < cols - 1}}
        down  == {<<i, i + cols>> : i \in {k \in 0..(rows * cols - 1) : k \div cols < rows - 1}}
    IN [edges |-> right \cup down \cup {<<e[2], e[1]>> : e \in right \cup down},
        num_qubits |-> rows * cols]

\* CouplingMap.from_full(n)
from_full(n) ==
    [edges |-> {e \in (0..(n - 1)) \X (0..(n - 1)) : e[1] # e[2]},
     num_qubits |-> n]

\* CouplingMap.from_heavy_hex(distance): the lattice is qiskit's; it is kept
\* by its distance and its size
from_heavy_hex(distance) ==
    [lattice |-> "heavy_hex", distance |-> distance,
     num_qubits |-> HeavyHexSize(distance)]

\* CouplingMap.from_heavy_square(distance)
from_heavy_square(distance) ==
    [lattice |-> "heavy_square", distance |-> distance]

\* CouplingMap.from_hexagonal_lattice(rows, cols)
from_hexagonal_lattice(rows, cols) ==
    [lattice |-> "hexagonal", rows |-> rows, cols |-> cols]

\* ------------------------- quvis-algorithm-generator/coupling_map_generator
\* variant: the loop stops before the wraparound edge
create_ring_coupling_map_open(num_device_qubits) ==
    IF num_device_qubits <= 0 THEN Raise("ValueError")
    ELSE IF num_device_qubits = 1 THEN Return(<<>>)
    ELSE Return([k \in 1..(num_device_qubits - 1) |-> <<k - 1, k % num_device_qubits>>])

create_ring_coupling_map(num_device_qubits) ==
    IF num_device_qubits <= 0 THEN Raise("ValueError")
    ELSE IF num_device_qubits = 1 THEN Return(<<>>)
    ELSE Return([k \in 1..num_device_qubits |-> <<k - 1, k % num_device_qubits>>])

\* the loop over range(n * n) from cell i on: right neighbour, then bottom one
RECURSIVE NxnGridLoop(_, _)
NxnGridLoop(n, i) ==
    IF i >= n * n THEN <<>>
    ELSE (IF i % n < n - 1 THEN <<(<<i, i + 1>>)>> ELSE <<>>)
         \o (IF i \div n < n - 1 THEN <<(<<i, i + n>>)>> ELSE <<>>)
         \o NxnGridLoop(n, i + 1)

\* the result is the pair (coupling_map, num_qubits_grid)
create_nxn_grid_coupling_map(n) ==
    IF n <= 0 THEN Raise("ValueError")
    ELSE IF n = 1 THEN Return(<<(<<>>), n * n>>)
    ELSE Return(<<NxnGridLoop(n, 0), n * n>>)

create_heavy_hex_coupling_map(distance) ==
    IF distance <= 0 \/ distance % 2 = 0 THEN Raise("ValueError")
    ELSE Return(from_heavy_hex(distance))

\* ------------------------------------------------ factories.TopologyFactory
\* variant: the side is int(sqrt) without the round-up
factory_create_grid_floor(physical_qubits) ==
    Return(from_grid(Isqrt(physical_qubits), Isqrt(physical_qubits)))

\* _create_grid
factory_create_grid(physical_qubits) ==
    LET n0 == Isqrt(physical_qubits)
        n  == IF n0 * n0 < physical_qubits THEN n0 + 1 ELSE n0
    IN Return(from_grid(n, n))

\* _create_heavy_hex; math.ceil((2 + math.sqrt(24 + 40 n)) / 10) is the least
\* d with 10 d - 2 >= sqrt(24 + 40 n); math.sqrt raises on a negative argument
factory_create_heavy_hex(physical_qubits) ==
    IF 24 + 40 * physical_qubits < 0 THEN Raise("ValueError")
    ELSE LET Enough(d) == 10 * d - 2 >= 0
                          /\ (10 * d - 2) * (10 * d - 2) >= 24 + 40 * physical_qubits
             ceil == CHOOSE d \in 0..(physical_qubits + 2) :
                        Enough(d) /\ ~Enough(d - 1)
             distance == IF ceil % 2 = 0 THEN ceil + 1 ELSE ceil
         IN Return(from_heavy_hex(distance))

\* _create_heavy_square; math.ceil((1 + math.sqrt(1 + 3 n)) / 3)
factory_create_heavy_square(physical_qubits) ==
    IF 1 + 3 * physical_qubits < 0 THEN Raise("ValueError")
    ELSE LET Enough(d) == 3 * d - 1 >= 0
                          /\ (3 * d - 1) * (3 * d - 1) >= 1 + 3 * physical_qubits
             ceil == CHOOSE d \in 0..(physical_qubits + 2) :
                        Enough(d) /\ ~Enough(d - 1)
             distance == IF ceil % 2 = 0 THEN ceil + 1 ELSE ceil
         IN Return(from_heavy_square(distance))

\* max(2, int((n / 2) ** 0.5)) and max(2, n // rows)
HexagonalRows(n) == Max({2, CHOOSE r \in 0..n : 2 * r * r <= n /\ n < 2 * (r + 1) * (r + 1)})

HexagonalCols(n) == Max({2, n \div HexagonalRows(n)})

\* _create_hexagonal
factory_create_hexagonal(physical_qubits) ==
    Return(from_hexagonal_lattice(HexagonalRows(physical_qubits),
                                  HexagonalCols(physical_qubits)))

\* TopologyType
TopologyTypes == {"line", "ring", "grid", "heavy_hex", "heavy_square",
                  "hexagonal", "full", "custom"}

\* TopologyFactory.create with the default registrations
TopologyFactory_create(topology, physical_qubits) ==
    CASE topology = "line" -> Return(from_line(physical_qubits))
      [] topology = "ring" -> Return(from_ring(physical_qubits))
      [] topology = "grid" -> factory_create_grid(physical_qubits)
      [] topology = "heavy_hex" -> factory_create_heavy_hex(physical_qubits)
      [] topology = "heavy_square" -> factory_create_heavy_square(physical_qubits)
      [] topology = "hexagonal" -> factory_create_hexagonal(physical_qubits)
      [] topology = "full" -> Return(from_full(physical_qubits))
      [] OTHER -> Raise("ValueError")

\* ------------------------------------- PlaygroundAPI._create_coupling_map
PlaygroundRing(num_qubits) ==
    Return([coupling_map |-> from_ring(num_qubits).edges,
            num_qubits |-> from_ring(num_qubits).num_qubits,
            topology_type |-> "ring"])

PlaygroundGrid(num_qubits) ==
    LET n0 == Isqrt(num_qubits)
        n  == IF n0 * n0 < num_qubits THEN n0 + 1 ELSE n0
    IN Return([coupling_map |-> from_grid(n, n).edges,
               num_qubits |-> from_grid(n, n).num_qubits,
               topology_type |-> "grid",
               grid_dim_rows |-> n,
               grid_dim_cols |-> n])

PlaygroundHeavyHex(num_qubits) ==
    LET distance == IF num_qubits <= 7 THEN 1
                    ELSE IF num_qubits <= 19 THEN 3
                    ELSE IF num_qubits <= 37 THEN 5
                    ELSE 3
    IN Return([coupling_map |-> from_heavy_hex(distance),
               num_qubits |-> from_heavy_hex(distance).num_qubits,
               topology_type |-> "heavy_hex",
               distance |-> distance])

PlaygroundHeavySquare(num_qubits) ==
    LET distance == IF num_qubits <= 7 THEN 1
                    ELSE IF num_qubits <= 25 THEN 3
                    ELSE IF num_qubits <= 61 THEN 5
                    ELSE 3
    IN Return([coupling_map |-> from_heavy_square(distance),
               topology_type |-> "heavy_square",
               distance |-> distance])

PlaygroundAPI_create_coupling_map(topology, num_qubits) ==
    CASE topology = "line" ->
            Return([coupling_map |-> from_line(num_qubits).edges,
                    num_qubits |-> from_line(num_qubits).num_qubits,
                    topology_type |-> "line"])
      [] topology = "ring" -> PlaygroundRing(num_qubits)
      [] topology = "grid" -> PlaygroundGrid(num_qubits)
      [] topology = "heavy_hex" -> PlaygroundHeavyHex(num_qubits)
      [] topology = "heavy_square" -> PlaygroundHeavySquare(num_qubits)
      [] topology = "hexagonal" ->
            Return([coupling_map |-> from_hexagonal_lattice(HexagonalRows(num_qubits),
                                                            HexagonalCols(num_qubits)),
                    topology_type |-> "hexagonal",
                    rows |-> HexagonalRows(num_qubits),
                    cols |-> HexagonalCols(num_qubits)])
      [] topology = "full" ->
            Return([coupling_map |-> from_full(num_qubits).edges,
                    num_qubits |-> from_full(num_qubits).num_qubits,
                    topology_type |-> "full"])
      [] OTHER -> Raise("ValueError")

\* ----------------------------------- paper/benchmark_qft_compilation.py
benchmark_create_grid_coupling_map(num_qubits) ==
    Return(from_grid(CeilSqrt(num_qubits), CeilSqrt(num_qubits)))

\* the while loop from the given odd distance on
RECURSIVE BenchmarkHeavyHexLoop(_, _)
BenchmarkHeavyHexLoop(num_qubits, distance) ==
    IF from_heavy_hex(distance).num_qubits >= num_qubits
    THEN from_heavy_hex(distance)
    ELSE BenchmarkHeavyHexLoop(num_qubits, distance + 2)

benchmark_create_heavy_hex_coupling_map(num_qubits) ==
    Return(BenchmarkHeavyHexLoop(num_qubits, 1))

\* ---------------------------------------- examples/qft_modular_demo.py
MaxCores == 3
MaxQubitsPerCore == 5

\* core_rows = int(sqrt(qubits_per_core))
CoreRows(qubits_per_core) == Isqrt(qubits_per_core)

\* core_cols = ceil(qubits_per_core / core_rows)
CoreCols(qubits_per_core) ==
    (qubits_per_core + CoreRows(qubits_per_core) - 1) \div CoreRows(qubits_per_core)

\* the r, c loops of one core, from cell u_local = r * core_cols + c on
RECURSIVE IntraCoreLoop(_, _, _)
IntraCoreLoop(core_offset, qubits_per_core, u_local) ==
    LET core_rows == CoreRows(qubits_per_core)
        core_cols == CoreCols(qubits_per_core)
        r == u_local \div core_cols
        c == u_local % core_cols
        u == core_offset + u_local
        right == IF c + 1 < core_cols /\ u_local + 1 < qubits_per_core
                 THEN <<(<<u, u + 1>>), (<<u + 1, u>>)>> ELSE <<>>
        bottom == IF r + 1 < core_rows /\ u_local + core_cols < qubits_per_core
                  THEN <<(<<u, u + core_cols>>), (<<u + core_cols, u>>)>> ELSE <<>>
    IN IF u_local >= core_rows * core_cols THEN <<>>
       ELSE (IF u_local >= qubits_per_core THEN <<>> ELSE right \o bottom)
            \o IntraCoreLoop(core_offset, qubits_per_core, u_local + 1)

\* the first loop over the cores, from the given core on
RECURSIVE IntraCoreEdges(_, _, _)
IntraCoreEdges(num_cores, qubits_per_core, core) ==
    IF core >= num_cores THEN <<>>
    ELSE IntraCoreLoop(core * qubits_per_core, qubits_per_core, 0)
         \o IntraCoreEdges(num_cores, qubits_per_core, core + 1)

\* the second loop: last qubit of each core to the first of the next one
InterCoreLinks(num_cores, qubits_per_core) ==
    [k \in 1..num_cores |->
        <<(k - 1) * qubits_per_core + qubits_per_core - 1,
          (k % num_cores) * qubits_per_core>>]

RECURSIVE InterCoreEdges(_, _)
InterCoreEdges(links, k) ==
    IF k > Len(links) THEN <<>>
    ELSE <<links[k], <<links[k][2], links[k][1]>> >> \o InterCoreEdges(links, k + 1)

\* the result is the pair (edges, inter_core_links)
create_modular_grid_topology(num_cores, qubits_per_core) ==
    Return(<<IntraCoreEdges(num_cores, qubits_per_core, 0)
               \o InterCoreEdges(InterCoreLinks(num_cores, qubits_per_core), 1),
             InterCoreLinks(num_cores, qubits_per_core)>>)

\* ------------------- PlaygroundAPI._create_circuit and CircuitFactory
MaxAlgQubits == 3

\* get_supported_algorithms(): names of a different list
get_supported_algorithms_with_grover == <<"qft", "qaoa", "ghz", "grover">>

\* get_supported_algorithms()
get_supported_algorithms == <<"qft", "qaoa", "ghz">>

\* get_supported_topologies()
get_supported_topologies ==
    <<"line", "ring", "grid", "heavy_hex", "heavy_square", "hexagonal", "full">>

\* AlgorithmType
AlgorithmTypes == {"qft", "qaoa", "ghz"}

\* QFT(num_qubits, do_swaps=True, name=...): the library circuit holds its
\* definition as one gate over all its qubits
QFT(num_qubits, name) ==
    LET qc == QuantumCircuit(num_qubits)
    IN [name |-> name, qubits |-> qc.qubits,
        data |-> <<[name |-> <<"Q", "F", "T">>, qubits |-> qc.qubits]>>]

\* h(0), then cx(0, i) for i in range(1, num_qubits)
GhzCircuit(num_qubits) ==
    LET qc == QuantumCircuit(num_qubits)
    IN [name |-> <<"GHZ-", ToString(num_qubits)>>, qubits |-> qc.qubits,
        data |-> <<[name |-> <<"h">>, qubits |-> <<qc.qubits[1]>>]>> \o
                 [i \in 1..(num_qubits - 1) |->
                     [name |-> <<"c", "x">>,
                      qubits |-> <<qc.qubits[1], qc.qubits[i + 1]>>]]]

\* one repetition: rzz(0.5, i, i + 1) for i in range(num_qubits - 1), then
\* rx(0.3, i) for i in range(num_qubits)
QaoaLayer(qc) ==
    [i \in 1..(Len(qc.qubits) - 1) |->
        [name |-> <<"r", "z", "z">>, qubits |-> <<qc.qubits[i], qc.qubits[i + 1]>>]] \o
    [i \in 1..Len(qc.qubits) |->
        [name |-> <<"r", "x">>, qubits |-> <<qc.qubits[i]>>]]

RECURSIVE QaoaLayers(_, _)
QaoaLayers(qc, reps) ==
    IF reps <= 0 THEN <<>> ELSE QaoaLayer(qc) \o QaoaLayers(qc, reps - 1)

\* reps = kwargs.get("reps", 2)
QaoaCircuit(num_qubits, kwargs) ==
    LET reps == IF "reps" \in DOMAIN kwargs THEN kwargs.reps ELSE 2
        qc == QuantumCircuit(num_qubits)
    IN [name |-> <<"QAOA-", ToString(num_qubits), "-p", ToString(reps)>>,
        qubits |-> qc.qubits, data |-> QaoaLayers(qc, reps)]

\* PlaygroundAPI._create_circuit(algorithm, num_qubits, **kwargs)
PlaygroundAPI_create_circuit(algorithm, num_qubits, kwargs) ==
    CASE algorithm = "qft" ->
            Return(QFT(num_qubits, <<"QFT-", ToString(num_qubits)>>))
      [] algorithm = "ghz" -> Return(GhzCircuit(num_qubits))
      [] algorithm = "qaoa" -> Return(QaoaCircuit(num_qubits, kwargs))
      [] OTHER -> Raise("ValueError")

\* CircuitFactory.create(config): the creator registered for config.algorithm
CircuitFactory_create(config) ==
    CASE config.algorithm = "qft" ->
            Return(QFT(config.num_qubits, <<"QFT-", ToString(config.num_qubits)>>))
      [] config.algorithm = "ghz" -> Return(GhzCircuit(config.num_qubits))
      [] config.algorithm = "qaoa" ->
            Return(QaoaCircuit(config.num_qubits, config.algorithm_params))
      [] OTHER -> Raise("ValueError")

\* keyword arguments of a creation request: none, or reps
SampleAlgorithmParams == {<<>>, [reps |-> 1]}

\* ------------------------------------------------- the topology requests
\* the compiler program and the visualizer at rest
CircuitIdle ==
    /\ circuit = QuantumCircuit(1)
    /\ transpiled_circuit = QuantumCircuit(1)
    /\ pc = "build"
    /\ compiled_circuit_data = NotCalled
    /\ generator_slices = NotCalled
    /\ logical_circuit_data = NotCalled

circuit_vars == <<circuit, transpiled_circuit, pc, compiled_circuit_data,
                  generator_slices, logical_circuit_data>>

InitTopology == CircuitIdle /\ TopoIdle /\ VizIdle /\ LaunchIdle

\* sizes a creator is asked for: the creators that pass the size straight to
\* qiskit are asked for positive sizes only
CreatorSizes(topology) ==
    IF topology \in {"line", "ring", "grid", "hexagonal", "full"}
    THEN 1..MaxTopoQubits ELSE TopoSizes

CreateRingCouplingMap ==
    \E n \in TopoSizes :
        /\ topo_call' = [creator |-> "create_ring_coupling_map", args |-> <<n>>]
        /\ topo_result' = create_ring_coupling_map(n)
        /\ UNCHANGED <<circuit_vars, viz_vars, launch_vars>>

CreateNxnGridCouplingMap ==
    \E n \in (0 - 1)..MaxGridSide :
        /\ topo_call' = [creator |-> "create_nxn_grid_coupling_map", args |-> <<n>>]
        /\ topo_result' = create_nxn_grid_coupling_map(n)
        /\ UNCHANGED <<circuit_vars, viz_vars, launch_vars>>

CreateHeavyHexCouplingMap ==
    \E distance \in (0 - 1)..MaxDistance :
        /\ topo_call' = [creator |-> "create_heavy_hex_coupling_map", args |-> <<distance>>]
        /\ topo_result' = create_heavy_hex_coupling_map(distance)
        /\ UNCHANGED <<circuit_vars, viz_vars, launch_vars>>

TopologyFactoryCreate ==
    \E topology \in TopologyTypes : \E n \in CreatorSizes(topology) :
        /\ topo_call' = [creator |-> "TopologyFactory.create", args |-> <<topology, n>>]
        /\ topo_result' = TopologyFactory_create(topology, n)
        /\ UNCHANGED <<circuit_vars, viz_vars, launch_vars>>

PlaygroundCreateCouplingMap ==
    \E topology \in (TopologyTypes \ {"custom"}) \cup {"invalid"} :
       \E n \in CreatorSizes(topology) :
        /\ topo_call' = [creator |-> "PlaygroundAPI._create_coupling_map", args |-> <<topology, n>>]
        /\ topo_result' = PlaygroundAPI_create_coupling_map(topology, n)
        /\ UNCHANGED <<circuit_vars, viz_vars, launch_vars>>

BenchmarkCreateGridCouplingMap ==
    \E n \in 1..MaxTopoQubits :
        /\ topo_call' = [creator |-> "benchmark.create_grid_coupling_map", args |-> <<n>>]
        /\ topo_result' = benchmark_create_grid_coupling_map(n)
        /\ UNCHANGED <<circuit_vars, viz_vars, launch_vars>>

BenchmarkCreateHeavyHexCouplingMap ==
    \E n \in TopoSizes :
        /\ topo_call' = [creator |-> "benchmark.create_heavy_hex_coupling_map", args |-> <<n>>]
        /\ topo_result' = benchmark_create_heavy_hex_coupling_map(n)
        /\ UNCHANGED <<circuit_vars, viz_vars, launch_vars>>

CreateModularGridTopology ==
    \E num_cores \in 1..MaxCores, qubits_per_core \in 1..MaxQubitsPerCore :
        /\ topo_call' = [creator |-> "create_modular_grid_topology", args |-> <<num_cores, qubits_per_core>>]
        /\ topo_result' = create_modular_grid_topology(num_cores, qubits_per_core)
        /\ UNCHANGED <<circuit_vars, viz_vars, launch_vars>>

PlaygroundCreateCircuit ==
    \E algorithm \in {get_supported_algorithms[i] : i \in DOMAIN get_supported_algorithms}
                        \cup {"grover", "invalid"} :
       \E n \in 1..MaxAlgQubits : \E kwargs \in SampleAlgorithmParams :
        /\ topo_call' = [creator |-> "PlaygroundAPI._create_circuit",
                         args |-> <<algorithm, n>>]
        /\ topo_result' = PlaygroundAPI_create_circuit(algorithm, n, kwargs)
        /\ UNCHANGED <<circuit_vars, viz_vars, launch_vars>>

CircuitFactoryCreate ==
    \E algorithm \in AlgorithmTypes \cup {"grover"} :
       \E n \in 1..MaxAlgQubits : \E params \in SampleAlgorithmParams :
        /\ topo_call' = [creator |-> "CircuitFactory.create", args |-> <<algorithm, n>>]
        /\ topo_result' = CircuitFactory_create([algorithm |-> algorithm,
                                                 num_qubits |-> n,
                                                 algorithm_params |-> params])
        /\ UNCHANGED <<circuit_vars, viz_vars, launch_vars>>

NextTopology ==
    \/ CreateRingCouplingMap
    \/ CreateNxnGridCouplingMap
    \/ CreateHeavyHexCouplingMap
    \/ TopologyFactoryCreate
    \/ PlaygroundCreateCouplingMap
    \/ BenchmarkCreateGridCouplingMap
    \/ BenchmarkCreateHeavyHexCouplingMap
    \/ CreateModularGridTopology
    \/ PlaygroundCreateCircuit
    \/ CircuitFactoryCreate

SpecTopology == InitTopology /\ [][NextTopology]_vars

\* --------------------------------------- api/visualizer.py: value model
MaxCircuits == 2

\* QuantumCircuit.decompose() of one instruction: a gate with a definition
\* is replaced by it (h by u2, swap by three cx), any other is kept
DecomposeInstruction(inst) ==
    CASE inst.name = <<"h">> ->
            <<[name |-> <<"u", "2">>, qubits |-> inst.qubits]>>
      [] inst.name = <<"s", "w", "a", "p">> ->
            <<[name |-> <<"c", "x">>, qubits |-> inst.qubits],
              [name |-> <<"c", "x">>, qubits |-> <<inst.qubits[2], inst.qubits[1]>>],
              [name |-> <<"c", "x">>, qubits |-> inst.qubits]>>
      [] OTHER -> <<inst>>

RECURSIVE DecomposeData(_, _)
DecomposeData(data, i) ==
    IF i > Len(data) THEN <<>>
    ELSE DecomposeInstruction(data[i]) \o DecomposeData(data, i + 1)

\* QuantumCircuit.decompose()
Decompose(qc) == [qubits |-> qc.qubits, data |-> DecomposeData(qc.data, 1)]

\* the circuits handed to add_circuit: a logical one and an already compiled
\* one holding a swap and an opaque gate named like a routing operation
SampleCircuits ==
    LET qc == QuantumCircuit(2) IN
    {[qubits |-> qc.qubits,
      data |-> <<[name |-> <<"h">>, qubits |-> <<qc.qubits[1]>>],
                 [name |-> <<"c", "x">>, qubits |-> <<qc.qubits[1], qc.qubits[2]>>]>>],
     [qubits |-> qc.qubits,
      data |-> <<[name |-> <<"s", "w", "a", "p">>,
                  qubits |-> <<qc.qubits[1], qc.qubits[2]>>],
                 [name |-> <<"b", "r", "i", "d", "g", "e">>,
                  qubits |-> <<qc.qubits[1], qc.qubits[2]>>]>>]}

\* the coupling_map arguments: None, a list of edges (also an empty one), a
\* CouplingMap object, a dictionary (also an empty one, and one whose
\* num_qubits is below its edges' endpoints), and a value of an unsupported
\* type
NoCouplingMap == [type |-> "NoneType"]

SampleCouplingMaps ==
    {NoCouplingMap,
     [type |-> "list", edges |-> <<(<<0, 1>>), (<<1, 2>>)>>],
     [type |-> "list", edges |-> <<>>],
     [type |-> "CouplingMap", edges |-> <<(<<0, 1>>), (<<1, 0>>)>>, size |-> 2],
     [type |-> "dict",
      items |-> [coupling_map |-> <<(<<0, 1>>), (<<1, 2>>), (<<2, 3>>)>>,
                 num_qubits |-> 4,
                 topology_type |-> "line"]],
     [type |-> "dict", items |-> <<>>],
     [type |-> "dict",
      items |-> [coupling_map |-> <<(<<0, 1>>)>>, num_qubits |-> 1]],
     [type |-> "str"]}

\* algorithm_name: omitted (None) or given
SampleNames == {<<>>, <<"QFT">>}

\* CircuitEntry
CircuitEntry(circuit_, coupling_map, algorithm_name, topology_type, kwargs) ==
    [circuit |-> circuit_, coupling_map |-> coupling_map,
     algorithm_name |-> algorithm_name, topology_type |-> topology_type,
     kwargs |-> kwargs]

\* max(max(edge) for edge in coupling_map) + 1 if coupling_map else num_qubits
ListDeviceQubits(edges, num_qubits) ==
    IF edges = <<>> THEN num_qubits
    ELSE Max({Max({e[1], e[2]}) : e \in Range(edges)}) + 1

\* the "Process coupling map" block of _process_circuit:
\* [coupling_map_list, num_device_qubits, topology_type] or the ValueError
ProcessCouplingMap(entry) ==
    LET cm == entry.coupling_map
        num_qubits == Len(entry.circuit.qubits)
    IN CASE cm.type = "NoneType" ->
               Return([coupling_map_list |-> <<>>,
                       num_device_qubits |-> num_qubits,
                       topology_type |-> entry.topology_type])
         [] cm.type = "dict" ->
               Return([coupling_map_list |->
                           IF "coupling_map" \in DOMAIN cm.items
                           THEN cm.items.coupling_map ELSE <<>>,
                       num_device_qubits |->
                           IF "num_qubits" \in DOMAIN cm.items
                           THEN cm.items.num_qubits ELSE num_qubits,
                       topology_type |->
                           IF "topology_type" \in DOMAIN cm.items
                           THEN cm.items.topology_type ELSE entry.topology_type])
         [] cm.type = "CouplingMap" ->
               Return([coupling_map_list |-> cm.edges,
                       num_device_qubits |-> cm.size,
                       topology_type |-> entry.topology_type])
         [] cm.type = "list" ->
               Return([coupling_map_list |-> cm.edges,
                       num_device_qubits |-> ListDeviceQubits(cm.edges, num_qubits),
                       topology_type |-> entry.topology_type])
         [] OTHER -> Raise("ValueError: coupling_map must be a list of edges, CouplingMap object, or dictionary")

\* the record of a logical circuit
LogicalRecord(entry, decomposed_circuit, operations_per_slice) ==
    [circuit_info |->
        [num_qubits |-> Len(decomposed_circuit.qubits),
         interaction_graph_ops_per_slice |-> operations_per_slice],
     device_info |->
        [source_coupling_map_file |-> "logical_circuit",
         topology_type |-> "logical",
         num_qubits_on_device |-> Len(decomposed_circuit.qubits),
         connectivity_graph_coupling_map |-> <<>>],
     algorithm_name |-> entry.algorithm_name,
     circuit_type |-> "logical",
     algorithm_params |-> entry.kwargs,
     circuit_stats |->
        [original_gates |-> Len(entry.circuit.data),
         depth |-> Len(operations_per_slice),
         qubits |-> Len(decomposed_circuit.qubits)]]

\* the record of a compiled circuit
CompiledRecord(entry, decomposed_circuit, device, compiled_operations_per_slice, routing) ==
    [circuit_info |->
        [num_qubits |-> Len(decomposed_circuit.qubits),
         compiled_interaction_graph_ops_per_slice |-> compiled_operations_per_slice],
     routing_info |->
        [num_qubits |-> Len(decomposed_circuit.qubits),
         routing_ops_per_slice |-> routing[1],
         total_swap_count |-> routing[2],
         routing_depth |-> routing[3]],
     device_info |->
        [source_coupling_map_file |-> "python_library",
         topology_type |-> device.topology_type,
         num_qubits_on_device |-> device.num_device_qubits,
         connectivity_graph_coupling_map |-> device.coupling_map_list],
     algorithm_name |-> entry.algorithm_name,
     circuit_type |-> "compiled",
     algorithm_params |-> entry.kwargs,
     circuit_stats |->
        [original_gates |-> Len(entry.circuit.data),
         transpiled_gates |-> Len(decomposed_circuit.data),
         depth |-> Len(compiled_operations_per_slice),
         qubits |-> Len(decomposed_circuit.qubits),
         swap_count |-> routing[2]]]

\* variant: an empty coupling map counts as no coupling map
QuvisVisualizer_process_circuit_truthy(entry) ==
    LET device == ProcessCouplingMap(entry)
        decomposed_circuit == Decompose(entry.circuit)
        operations_per_slice == extract_operations_per_slice(decomposed_circuit)
        routing == extract_routing_operations_per_slice(decomposed_circuit)
    IN IF device.raised # "none" THEN Raise(device.raised)
       ELSE IF operations_per_slice.raised # "none" THEN Raise(operations_per_slice.raised)
       ELSE IF device.value.coupling_map_list = <<>>
       THEN Return(LogicalRecord(entry, decomposed_circuit, operations_per_slice.value))
       ELSE IF routing.raised # "none" THEN Raise(routing.raised)
       ELSE Return(CompiledRecord(entry, decomposed_circuit, device.value,
                                  operations_per_slice.value, routing.value))

\* QuvisVisualizer._process_circuit
QuvisVisualizer_process_circuit(entry) ==
    LET device == ProcessCouplingMap(entry)
        decomposed_circuit == Decompose(entry.circuit)
        operations_per_slice == extract_operations_per_slice(decomposed_circuit)
        routing == extract_routing_operations_per_slice(decomposed_circuit)
    IN IF device.raised # "none" THEN Raise(device.raised)
       ELSE IF operations_per_slice.raised # "none" THEN Raise(operations_per_slice.raised)
       ELSE IF entry.coupling_map.type = "NoneType"
       THEN Return(LogicalRecord(entry, decomposed_circuit, operations_per_slice.value))
       ELSE IF routing.raised # "none" THEN Raise(routing.raised)
       ELSE Return(CompiledRecord(entry, decomposed_circuit, device.value,
                                  operations_per_slice.value, routing.value))

\* ------------------------------------------- config.py: VisualizerSettings
\* the dataclass fields and their defaults (numbers kept as written)
VisualizerSettingsDefaults ==
    [qubit_size |-> "1.0",
     connection_thickness |-> "0.05",
     inactive_alpha |-> "0.1",
     render_bloch_spheres |-> "False",
     render_connection_lines |-> "True",
     repel_force |-> "0.6",
     ideal_distance |-> "1.0",
     iterations |-> "500",
     cooling_factor |-> "1.0",
     attract_force |-> "0.1",
     core_distance |-> "5.0",
     heatmap_max_slices |-> "-1",
     heatmap_base_size |-> "1500.0",
     heatmap_fade_threshold |-> "0.1",
     heatmap_green_threshold |-> "0.3",
     heatmap_yellow_threshold |-> "0.7",
     heatmap_intensity_power |-> "0.3",
     heatmap_min_intensity |-> "0.01",
     heatmap_border_width |-> "0.0",
     one_qubit_fidelity_base |-> "0.99",
     two_qubit_fidelity_base |-> "0.98"]

\* VisualizerSettings(**kwargs): the generated __init__ takes the fields as
\* keywords and raises TypeError on any other keyword
VisualizerSettings(kwargs) ==
    IF DOMAIN kwargs \subseteq DOMAIN VisualizerSettingsDefaults
    THEN Return([type |-> "VisualizerSettings",
                 fields |-> [k \in DOMAIN VisualizerSettingsDefaults |->
                               IF k \in DOMAIN kwargs THEN kwargs[k]
                               ELSE VisualizerSettingsDefaults[k]]])
    ELSE Raise("TypeError")

\* VisualizerSettings.to_dict
to_dict(settings) == settings.fields

\* keyword sets used to build settings: the overrides of the per-circuit
\* example, and a key that is no field
SampleOverrides ==
    [heatmap_intensity_power |-> "0.8",
     render_bloch_spheres |-> "True",
     qubit_size |-> "2.0",
     heatmap_yellow_threshold |-> "0.5"]

UnknownKey == "glow_radius"

\* every sub-dictionary of d
SubDicts(d) == {[k \in keys |-> d[k]] : keys \in SUBSET DOMAIN d}

\* d with the unknown key added
WithUnknownKey(d) ==
    [k \in DOMAIN d \cup {UnknownKey} |-> IF k = UnknownKey THEN "3" ELSE d[k]]

SampleSettingsKwargs ==
    SubDicts(SampleOverrides) \cup {WithUnknownKey(d) : d \in SubDicts(SampleOverrides)}

\* the settings object of the per-circuit example
Circuit2Settings == VisualizerSettings(SampleOverrides).value

\* ------------------------------------ api/visualizer.py: QuvisVisualizer
\* variant: a circuit that is already in the collection is not added again
add_circuit_dedup(self_circuits, circuit_, coupling_map, algorithm_name, topology_type, kwargs) ==
    LET name == IF algorithm_name = <<>>
                THEN <<IF coupling_map.type = "NoneType" THEN "Logical" ELSE "Compiled",
                       " Circuit ", ToString(Len(self_circuits) + 1)>>
                ELSE algorithm_name
    IN IF \E k \in 1..Len(self_circuits) :
             /\ self_circuits[k].circuit = circuit_
             /\ self_circuits[k].coupling_map = coupling_map
       THEN self_circuits
       ELSE Append(self_circuits,
                   CircuitEntry(circuit_, coupling_map, name, topology_type, kwargs))

\* add_circuit: the collection after the call; an omitted name becomes
\* f"{circuit_type} Circuit {len(self.circuits) + 1}"
add_circuit(self_circuits, circuit_, coupling_map, algorithm_name, topology_type, kwargs) ==
    LET name == IF algorithm_name = <<>>
                THEN <<IF coupling_map.type = "NoneType" THEN "Logical" ELSE "Compiled",
                       " Circuit ", ToString(Len(self_circuits) + 1)>>
                ELSE algorithm_name
    IN Append(self_circuits,
              CircuitEntry(circuit_, coupling_map, name, topology_type, kwargs))

\* the loop of visualize over self.circuits from entry i on
RECURSIVE ProcessEntries(_, _, _)
ProcessEntries(self_circuits, i, all_circuit_data) ==
    IF i > Len(self_circuits) THEN Return(all_circuit_data)
    ELSE LET circuit_data == QuvisVisualizer_process_circuit(self_circuits[i]) IN
         IF circuit_data.raised # "none" THEN circuit_data
         ELSE ProcessEntries(self_circuits, i + 1,
                             Append(all_circuit_data, circuit_data.value))

\* the bundle handed to the frontend
FrontendData(all_circuit_data) ==
    [circuits |-> all_circuit_data,
     mode |-> "library_multi",
     total_circuits |-> Len(all_circuit_data)]

\* variant: an empty collection is processed like any other
visualize_unchecked(self_circuits) ==
    LET all == ProcessEntries(self_circuits, 1, <<>>) IN
    IF all.raised # "none" THEN [result |-> all, launched |-> NotCalled]
    ELSE [result |-> Return(FrontendData(all.value)),
          launched |-> Return(FrontendData(all.value))]

\* visualize: its outcome and the argument _launch_visualization was called
\* with, if it was called
visualize(self_circuits) ==
    IF self_circuits = <<>>
    THEN [result |-> Raise("ValueError: No circuits added. Use add_circuit() to add circuits before visualizing."),
          launched |-> NotCalled]
    ELSE LET all == ProcessEntries(self_circuits, 1, <<>>) IN
         IF all.raised # "none" THEN [result |-> all, launched |-> NotCalled]
         ELSE [result |-> Return(FrontendData(all.value)),
               launched |-> Return(FrontendData(all.value))]

\* the arguments of add_circuit: every circuit, coupling map and name without
\* extra keywords, and calls with a settings keyword or an unknown keyword
SampleAddCalls ==
    [circuit : SampleCircuits, coupling_map : SampleCouplingMaps,
     algorithm_name : SampleNames, kwargs : {<<>>}]
    \cup
    [circuit : {CHOOSE c \in SampleCircuits : c.data[1].name = <<"h">>},
     coupling_map : {NoCouplingMap, [type |-> "list", edges |-> <<(<<0, 1>>), (<<1, 2>>)>>]},
     algorithm_name : {<<"QFT">>},
     kwargs : {[settings |-> Circuit2Settings], [glow_radius |-> "3"]}]

InitVisualizer == CircuitIdle /\ TopoIdle /\ VizIdle /\ LaunchIdle

AddCircuit ==
    /\ Len(circuits) < MaxCircuits
    /\ \E call \in SampleAddCalls :
          /\ circuits' = add_circuit(circuits, call.circuit, call.coupling_map,
                                     call.algorithm_name, "custom", call.kwargs)
          /\ added' = Append(added, call)
          /\ last_args' = call
    /\ last_call' = "add_circuit"
    /\ viz_result' = Return(<<>>)
    /\ launched_data' = NotCalled
    /\ UNCHANGED <<circuit_vars, topo_vars, launch_vars>>

Visualize ==
    /\ last_call' = "visualize"
    /\ last_args' = <<>>
    /\ viz_result' = visualize(circuits).result
    /\ launched_data' = visualize(circuits).launched
    /\ UNCHANGED <<circuits, added, circuit_vars, topo_vars, launch_vars>>

ClearCircuits ==
    /\ circuits' = <<>>
    /\ added' = <<>>
    /\ last_call' = "clear_circuits"
    /\ last_args' = <<>>
    /\ viz_result' = Return(<<>>)
    /\ launched_data' = NotCalled
    /\ UNCHANGED <<circuit_vars, topo_vars, launch_vars>>

NextVisualizer ==
    \/ AddCircuit
    \/ Visualize
    \/ ClearCircuits

SpecVisualizer == InitVisualizer /\ [][NextVisualizer]_vars

\* ------------------------- api/visualizer.py: the module's entry points
\* the keywords QuvisVisualizer.__init__ takes
QuvisVisualizerKeywords == {"frontend_path", "auto_open_browser", "port"}

\* QuvisVisualizer(**kwargs): any other keyword is a TypeError
QuvisVisualizer_init(kwargs) ==
    IF DOMAIN kwargs \subseteq QuvisVisualizerKeywords
    THEN Return(<<>>) ELSE Raise("TypeError")

\* visualize_circuit: a visualizer of its own, one add_circuit, visualize()
visualize_circuit(circuit_, coupling_map, algorithm_name, kwargs) ==
    LET visualizer_circuits ==
            add_circuit(<<>>, circuit_, coupling_map, algorithm_name, "custom", kwargs)
    IN [circuits |-> visualizer_circuits,
        result |-> visualize(visualizer_circuits).result,
        launched |-> visualize(visualizer_circuits).launched]

\* the arguments of visualize_circuit; algorithm_name defaults to
\* "Custom Circuit"
SampleVisualizeCircuitCalls ==
    [circuit : SampleCircuits, coupling_map : SampleCouplingMaps,
     algorithm_name : {<<"Custom Circuit">>, <<"QFT">>},
     kwargs : {<<>>, [settings |-> Circuit2Settings], [glow_radius |-> "3"]}]

\* the keywords given to QuvisVisualizer(...)
SampleVisualizerKwargs ==
    {<<>>, [auto_open_browser |-> FALSE], [settings |-> Circuit2Settings]}

InitLibrary == CircuitIdle /\ TopoIdle /\ VizIdle /\ LaunchIdle

ConstructVisualizer ==
    \E kwargs \in SampleVisualizerKwargs :
        /\ last_call' = "__init__"
        /\ last_args' = [kwargs |-> kwargs]
        /\ viz_result' = QuvisVisualizer_init(kwargs)
        /\ circuits' = <<>>
        /\ added' = <<>>
        /\ launched_data' = NotCalled
        /\ UNCHANGED <<circuit_vars, topo_vars, launch_vars>>

ConstructSettings ==
    \E kwargs \in SampleSettingsKwargs :
        /\ last_call' = "VisualizerSettings"
        /\ last_args' = [kwargs |-> kwargs]
        /\ viz_result' = VisualizerSettings(kwargs)
        /\ circuits' = <<>>
        /\ added' = <<>>
        /\ launched_data' = NotCalled
        /\ UNCHANGED <<circuit_vars, topo_vars, launch_vars>>

\* circuits and added are those of the visualizer the call creates
VisualizeCircuit ==
    \E call \in SampleVisualizeCircuitCalls :
        /\ last_call' = "visualize_circuit"
        /\ last_args' = call
        /\ circuits' = visualize_circuit(call.circuit, call.coupling_map,
                                         call.algorithm_name, call.kwargs).circuits
        /\ added' = <<call>>
        /\ viz_result' = visualize_circuit(call.circuit, call.coupling_map,
                                           call.algorithm_name, call.kwargs).result
        /\ launched_data' = visualize_circuit(call.circuit, call.coupling_map,
                                              call.algorithm_name, call.kwargs).launched
        /\ UNCHANGED <<circuit_vars, topo_vars, launch_vars>>

NextLibrary ==
    \/ ConstructVisualizer
    \/ ConstructSettings
    \/ VisualizeCircuit

SpecLibrary == InitLibrary /\ [][NextLibrary]_vars

\* ------------ quvis-algorithm-generator/compiler_utils.py: validation

\* validate_coupling_map(device_data, num_circuit_qubits, path) -> bool
\* device_data.get(key) is None for a missing key; the num_qubits values of
\* the sampled records are ints, so isinstance(num_device_qubits, int) holds
validate_coupling_map(device_data, num_circuit_qubits) ==
    IF "coupling_map" \notin DOMAIN device_data \/ "num_qubits" \notin DOMAIN device_data
    THEN FALSE
    ELSE IF device_data.num_qubits <= 0
    THEN FALSE
    ELSE IF num_circuit_qubits > device_data.num_qubits
    THEN FALSE
    ELSE TRUE

\* --------------- api/visualizer.py: QuvisVisualizer._launch_visualization
\* max_wait_time: iterations of the readiness loop
max_wait_time == 30

InitLaunch == CircuitIdle /\ TopoIdle /\ VizIdle /\ LaunchIdle

\* _launch_visualization(data) is called (again): its locals start afresh;
\* the data file and a server left by an earlier call stay as they are
CallLaunchVisualization ==
    /\ launch_pc \in {"idle", "returned", "raised"}
    /\ launch_pc' = "write"
    /\ written' = "no"
    /\ process' = "none"
    /\ attempt' = 0
    /\ server_ready' = FALSE
    /\ file_accessible' = FALSE
    /\ UNCHANGED <<data_file, circuit_vars, topo_vars, viz_vars>>

\* the try block that writes and re-reads the file: open() fails, or
\* json.dump fails on a value that is not serializable after the file was
\* created, or the file is written and verified; an exception is printed
\* and the method returns
WriteDataFile ==
    /\ launch_pc = "write"
    /\ \E outcome \in {"open failed", "dump failed", "written"} :
          /\ written' = CASE outcome = "open failed" -> "no"
                           [] outcome = "dump failed" -> "partial"
                           [] OTHER -> "complete"
          /\ data_file' = IF outcome = "open failed" THEN data_file ELSE "exists"
          /\ launch_pc' = IF outcome = "written" THEN "check_port" ELSE "returned"
    /\ UNCHANGED <<process, attempt, server_ready, file_accessible,
                   circuit_vars, topo_vars, viz_vars>>

\* if is_port_in_use(self.port): only a message, then the clean-up
CheckPort ==
    /\ launch_pc = "check_port"
    /\ \E in_use \in BOOLEAN :
          launch_pc' = IF in_use THEN "cleanup" ELSE "popen"
    /\ UNCHANGED <<written, data_file, process, attempt, server_ready,
                   file_accessible, circuit_vars, topo_vars, viz_vars>>

\* subprocess.Popen([...]): the server starts, or Popen raises (no npx) and
\* the except Exception branch leads to the clean-up
StartServer ==
    /\ launch_pc = "popen"
    /\ \E started \in BOOLEAN :
          /\ process' = IF started THEN "running" ELSE "none"
          /\ launch_pc' = IF started THEN "wait_loop" ELSE "cleanup"
    /\ attempt' = 0
    /\ server_ready' = FALSE
    /\ file_accessible' = FALSE
    /\ UNCHANGED <<written, data_file, circuit_vars, topo_vars, viz_vars>>

\* one iteration of for attempt in range(max_wait_time): the port answers or
\* not, and if it does the file is served (break) or not
WaitAttempt ==
    /\ launch_pc = "wait_loop"
    /\ attempt < max_wait_time
    /\ \E in_use \in BOOLEAN : \E accessible \in BOOLEAN :
          /\ server_ready' = (server_ready \/ in_use)
          /\ file_accessible' = (in_use /\ accessible)
          /\ launch_pc' = IF in_use /\ accessible THEN "after_loop" ELSE "wait_loop"
          /\ attempt' = IF in_use /\ accessible THEN attempt ELSE attempt + 1
    /\ UNCHANGED <<written, data_file, process, circuit_vars, topo_vars, viz_vars>>

\* the loop ran out of attempts
WaitExhausted ==
    /\ launch_pc = "wait_loop"
    /\ attempt = max_wait_time
    /\ launch_pc' = "after_loop"
    /\ UNCHANGED <<written, data_file, process, attempt, server_ready,
                   file_accessible, circuit_vars, topo_vars, viz_vars>>

\* an exception other than URLError / timeout inside the loop: caught by
\* except Exception, which prints and falls through to the clean-up
LaunchException ==
    /\ launch_pc = "wait_loop"
    /\ attempt < max_wait_time
    /\ launch_pc' = "cleanup"
    /\ UNCHANGED <<written, data_file, process, attempt, server_ready,
                   file_accessible, circuit_vars, topo_vars, viz_vars>>

\* Ctrl+C during the loop: KeyboardInterrupt is no Exception and leaves the
\* method
InterruptWhileWaiting ==
    /\ launch_pc = "wait_loop"
    /\ attempt < max_wait_time
    /\ launch_pc' = "raised"
    /\ UNCHANGED <<written, data_file, process, attempt, server_ready,
                   file_accessible, circuit_vars, topo_vars, viz_vars>>

\* if not server_ready: process.terminate(); return.  Otherwise go on to
\* process.wait()
AfterLoop ==
    /\ launch_pc = "after_loop"
    /\ IF ~server_ready
       THEN /\ process' = IF process = "running" THEN "terminated" ELSE process
            /\ launch_pc' = "returned"
       ELSE /\ process' = process
            /\ launch_pc' = "process_wait"
    /\ UNCHANGED <<written, data_file, attempt, server_ready, file_accessible,
                   circuit_vars, topo_vars, viz_vars>>

\* the server process ends by itself while the method runs
ServerExits ==
    /\ launch_pc \in {"wait_loop", "after_loop", "process_wait"}
    /\ process = "running"
    /\ process' = "exited"
    /\ UNCHANGED <<launch_pc, written, data_file, attempt, server_ready,
                   file_accessible, circuit_vars, topo_vars, viz_vars>>

\* process.wait() returns once the server has exited
ProcessWaitReturns ==
    /\ launch_pc = "process_wait"
    /\ process = "exited"
    /\ launch_pc' = "cleanup"
    /\ UNCHANGED <<written, data_file, process, attempt, server_ready,
                   file_accessible, circuit_vars, topo_vars, viz_vars>>

\* except KeyboardInterrupt: process.terminate(); process.wait()
InterruptProcessWait ==
    /\ launch_pc = "process_wait"
    /\ process' = IF process = "running" THEN "terminated" ELSE process
    /\ launch_pc' = "cleanup"
    /\ UNCHANGED <<written, data_file, attempt, server_ready, file_accessible,
                   circuit_vars, topo_vars, viz_vars>>

\* if data_file.exists(): data_file.unlink(); a failing unlink is a warning
CleanUp ==
    /\ launch_pc = "cleanup"
    /\ \E unlinked \in BOOLEAN :
          data_file' = IF data_file = "exists" /\ unlinked THEN "absent" ELSE data_file
    /\ launch_pc' = "returned"
    /\ UNCHANGED <<written, process, attempt, server_ready, file_accessible,
                   circuit_vars, topo_vars, viz_vars>>

NextLaunch ==
    \/ CallLaunchVisualization
    \/ WriteDataFile
    \/ CheckPort
    \/ StartServer
    \/ WaitAttempt
    \/ WaitExhausted
    \/ LaunchException
    \/ InterruptWhileWaiting
    \/ AfterLoop
    \/ ServerExits
    \/ ProcessWaitReturns
    \/ InterruptProcessWait
    \/ CleanUp

SpecLaunch == InitLaunch /\ [][NextLaunch]_vars

\* ================================================================ claims
\* the transpiled circuit's operations in program order, qubits as indices
ProgramOps ==
    [i \in 1..Len(transpiled_circuit.data) |->
        [name |-> transpiled_circuit.data[i].name,
         qubits |-> [k \in 1..Len(transpiled_circuit.data[i].qubits) |->
                        transpiled_circuit.data[i].qubits[k].index]]]

\* some instruction names a qubit outside the circuit's declared range
HasInvalidQubit ==
    \E i \in 1..Len(transpiled_circuit.data) :
        \E k \in 1..Len(transpiled_circuit.data[i].qubits) :
            transpiled_circuit.data[i].qubits[k] \notin Range(transpiled_circuit.qubits)

\* _process_compiled_circuit has returned a record
Processed == pc # "build" /\ compiled_circuit_data.raised = "none"

Schedule == compiled_circuit_data.value.circuit_info.compiled_interaction_graph_ops_per_slice

RoutingSlices == compiled_circuit_data.value.routing_info.routing_ops_per_slice

RECURSIVE Flatten(_)
Flatten(slices) == IF slices = <<>> THEN <<>> ELSE Head(slices) \o Flatten(Tail(slices))

NameQubits(ops) == [i \in 1..Len(ops) |-> [name |-> ops[i].name, qubits |-> ops[i].qubits]]

Touching(ops, q) == SelectSeq(ops, LAMBDA op : q \in Range(op.qubits))

SharesQubit(a, b) == Range(a.qubits) \cap Range(b.qubits) # {}

\* the recognized routing names of the specification, compared ignoring case
IsRoutingName(name) ==
    Lower(name) \in {<<"s", "w", "a", "p">>, <<"b", "r", "i", "d", "g", "e">>,
                     <<"i", "s", "w", "a", "p">>}

IsSwapName(name) == Lower(name) = <<"s", "w", "a", "p">>

\* the ASAP layering of the specification (4.1): per-qubit last slice, -1 = none
RECURSIVE AsapLayering(_, _, _, _)
AsapLayering(ops, i, last_slice, slices) ==
    IF i > Len(ops) THEN slices
    ELSE LET op == ops[i]
             slice_index == 1 + Max({last_slice[q] : q \in Range(op.qubits)})
             updated == [q \in DOMAIN last_slice |->
                            IF q \in Range(op.qubits) THEN slice_index ELSE last_slice[q]]
         IN AsapLayering(ops, i + 1, updated,
                IF slice_index + 1 > Len(slices) THEN Append(slices, <<op>>)
                ELSE [slices EXCEPT ![slice_index + 1] = Append(@, op)])

AsapSchedule(ops) ==
    AsapLayering(ops, 1, [q \in 0..(Len(transpiled_circuit.qubits) - 1) |-> -1], <<>>)

\* C1: every operation, in program order, lands in slice 1 + max over its
\* qubits of the last slice that touched the qubit (slice 0 if none): the
\* schedule is the ASAP layering of the operation list.
C1_AsapLayering == Processed => Schedule = AsapSchedule(ProgramOps)

\* C2: operations on pairwise-disjoint qubits are scheduled into exactly one
\* slice that holds all of them.
C2_DisjointOneSlice ==
    (/\ Processed
     /\ ProgramOps # <<>>
     /\ \A i, j \in 1..Len(ProgramOps) : i # j => ~SharesQubit(ProgramOps[i], ProgramOps[j]))
    => Schedule = <<ProgramOps>>

\* C3: for every qubit the operations touching it lie in strictly increasing
\* slices in program order: no slice holds two operations sharing a qubit,
\* and the flattened schedule keeps each qubit's operations in program order.
C3_PerQubitIncreasing ==
    Processed =>
        /\ \A s \in 1..Len(Schedule) : \A i, j \in 1..Len(Schedule[s]) :
              i # j => ~SharesQubit(Schedule[s][i], Schedule[s][j])
        /\ \A q \in 0..(Len(transpiled_circuit.qubits) - 1) :
              Touching(Flatten(Schedule), q) = Touching(ProgramOps, q)

\* a schedule in which one qubit is touched by several operations
C3_Witness ==
    /\ Processed
    /\ \E i, j \in 1..Len(ProgramOps) : i < j /\ SharesQubit(ProgramOps[i], ProgramOps[j])
    /\ \E i, j \in 1..Len(ProgramOps) : i < j /\ ~SharesQubit(ProgramOps[i], ProgramOps[j])

\* C4: the DAG-layering extractor and the optimized extractor assign every
\* operation to the same slice: they return the same schedule.
C4_SamePathsSameSchedule ==
    (pc = "done" /\ Processed /\ generator_slices.raised = "none")
    => generator_slices.value = Schedule

\* C5: no scheduler emits an empty slice; the slices are the consecutive
\* entries of the returned list, and the empty operation list yields zero
\* slices.
C5_NoEmptySlice ==
    /\ Processed =>
          /\ \A s \in 1..Len(Schedule) : Schedule[s] # <<>>
          /\ (ProgramOps = <<>> => Schedule = <<>>)
    /\ (pc = "done" /\ generator_slices.raised = "none") =>
          /\ \A s \in 1..Len(generator_slices.value) : generator_slices.value[s] # <<>>
          /\ (ProgramOps = <<>> => generator_slices.value = <<>>)

\* both schedulers have sliced a circuit of several operations
C5_Witness ==
    /\ pc = "done"
    /\ Processed
    /\ generator_slices.raised = "none"
    /\ Len(Schedule) >= 2
    /\ Len(generator_slices.value) >= 2

C7_RoutingClassification ==
    Processed =>
        /\ NameQubits(Flatten(RoutingSlices))
              = SelectSeq(ProgramOps, LAMBDA op : IsRoutingName(op.name))
        /\ compiled_circuit_data.value.routing_analysis.routing_op_count
              = Len(SelectSeq(ProgramOps, LAMBDA op : IsRoutingName(op.name)))
        /\ compiled_circuit_data.value.routing_analysis.routing_op_count
              = Len(Flatten(RoutingSlices))

\* a compiled circuit with a mixed-case routing name and a logical gate
C7_Witness ==
    /\ Processed
    /\ \E i \in 1..Len(ProgramOps) :
          IsRoutingName(ProgramOps[i].name) /\ Lower(ProgramOps[i].name) # ProgramOps[i].name
    /\ \E i \in 1..Len(ProgramOps) : ~IsRoutingName(ProgramOps[i].name)
    /\ compiled_circuit_data.value.routing_analysis.routing_op_count >= 1

C9_SwapCount ==
    Processed =>
        /\ compiled_circuit_data.value.routing_info.total_swap_count
              = Len(SelectSeq(ProgramOps, LAMBDA op : IsSwapName(op.name)))
        /\ \A i \in 1..Len(ProgramOps) :
              IsRoutingName(ProgramOps[i].name) =>
                 \E s \in 1..Len(RoutingSlices) :
                    ProgramOps[i] \in Range(NameQubits(RoutingSlices[s]))
        /\ compiled_circuit_data.value.routing_info.total_swap_count
              <= Len(Flatten(RoutingSlices))

\* a mixed-case swap is counted next to a routing operation that is not
C9_Witness ==
    /\ Processed
    /\ \E i \in 1..Len(ProgramOps) :
          IsSwapName(ProgramOps[i].name) /\ ProgramOps[i].name # Lower(ProgramOps[i].name)
    /\ \E i \in 1..Len(ProgramOps) :
          IsRoutingName(ProgramOps[i].name) /\ ~IsSwapName(ProgramOps[i].name)
    /\ compiled_circuit_data.value.routing_info.total_swap_count >= 1

\* indices (from 0) of the schedule slices that hold a routing operation
RoutingSliceIndices ==
    {s - 1 : s \in {t \in 1..Len(Schedule) :
                       \E k \in 1..Len(Schedule[t]) : IsRoutingName(Schedule[t][k].name)}}

RoutingOpCount == Len(SelectSeq(ProgramOps, LAMBDA op : IsRoutingName(op.name)))

RoutingAnalysis == compiled_circuit_data.value.routing_analysis

\* C11: routing_overhead_percentage is routing_op_count / compiled_op_count
\* * 100, is 0 when compiled_op_count is 0, lies in [0, 100] and is 0 when
\* the compiled circuit has no routing operation.
C11_OverheadPercentage ==
    Processed =>
        LET pct == RoutingAnalysis.routing_overhead_percentage IN
        /\ pct.den > 0
        /\ RoutingAnalysis.compiled_op_count = Len(ProgramOps)
        /\ RoutingAnalysis.routing_op_count = RoutingOpCount
        /\ (Len(ProgramOps) > 0 =>
               pct.num * Len(ProgramOps) = RoutingOpCount * 100 * pct.den)
        /\ (Len(ProgramOps) = 0 => pct.num = 0)
        /\ 0 <= pct.num /\ pct.num <= 100 * pct.den
        /\ (RoutingOpCount = 0 => pct.num = 0)

\* a compiled circuit that is partly routing: the percentage is strictly
\* between 0 and 100
C11_Witness ==
    /\ Processed
    /\ RoutingOpCount >= 1
    /\ RoutingOpCount < Len(ProgramOps)
    /\ RoutingAnalysis.routing_overhead_percentage.num > 0

Undirected(edges) == {{e[1], e[2]} : e \in edges}

\* the last call was TopologyFactory.create or _create_coupling_map for the
\* given topology name
CreatedByName(topology) ==
    /\ topo_call.creator \in {"TopologyFactory.create",
                              "PlaygroundAPI._create_coupling_map"}
    /\ topo_call.args[1] = topology

\* the directed edges such a call returned
CreatedEdges ==
    IF topo_call.creator = "TopologyFactory.create"
    THEN topo_result.value.edges
    ELSE topo_result.value.coupling_map

\* the ring on n qubits and the line it extends
RingEdges(n) == {{i, (i + 1) % n} : i \in 0..(n - 1)}

LineEdges(n) == {{i, i + 1} : i \in 0..(n - 2)}

\* C13: for n > 2 the ring generator returns exactly the n edges
\* (i, (i+1) mod n), none twice and none a self-loop: the n-1 edges of the
\* line plus the wraparound edge (n-1, 0).
C13_RingEdges ==
    /\ (topo_call.creator = "create_ring_coupling_map" /\ topo_call.args[1] > 2) =>
          LET n  == topo_call.args[1]
              cm == topo_result.value
          IN /\ topo_result.raised = "none"
             /\ Len(cm) = n
             /\ \A i \in 0..(n - 1) : cm[i + 1] = <<i, (i + 1) % n>>
             /\ \A j, k \in 1..Len(cm) :
                   j # k => {cm[j][1], cm[j][2]} # {cm[k][1], cm[k][2]}
             /\ \A k \in 1..Len(cm) : cm[k][1] # cm[k][2]
             /\ Undirected(Range(cm)) = LineEdges(n) \cup {{n - 1, 0}}
             /\ {n - 1, 0} \notin LineEdges(n)
    /\ (CreatedByName("ring") /\ topo_call.args[2] > 2) =>
          LET n == topo_call.args[2] IN
          /\ topo_result.raised = "none"
          /\ Undirected(CreatedEdges) = RingEdges(n)
          /\ Cardinality(Undirected(CreatedEdges)) = n
          /\ \A e \in CreatedEdges : e[1] # e[2]
          /\ Undirected(CreatedEdges) = Undirected(from_line(n).edges) \cup {{n - 1, 0}}
          /\ Cardinality(Undirected(from_line(n).edges)) = n - 1

\* the ring generator has returned a ring on more than two qubits
C13_Witness ==
    /\ topo_call.creator = "create_ring_coupling_map"
    /\ topo_call.args[1] > 2
    /\ topo_result.raised = "none"
    /\ <<topo_call.args[1] - 1, 0>> \in Range(topo_result.value)

\* the s x s grid, cells numbered row by row
GridEdges(s) ==
    {{i, i + 1} : i \in {k \in 0..(s * s - 1) : k % s < s - 1}}
      \cup {{i, i + s} : i \in {k \in 0..(s * s - 1) : k \div s < s - 1}}

\* C14: for n >= 1 the grid creators use the side s = ceil(sqrt(n)), the
\* smallest s with s*s >= n, number the cells row by row, and return exactly
\* the edges (i, i+1) for cells outside the last column and (i, i+s) for
\* cells outside the last row.
C14_GridEdges ==
    /\ (CreatedByName("grid") /\ topo_call.args[2] >= 1) =>
          LET n == topo_call.args[2] IN
          /\ topo_result.raised = "none"
          /\ \E s \in 1..n :
                /\ s * s >= n
                /\ (s - 1) * (s - 1) < n
                /\ topo_result.value.num_qubits = s * s
                /\ Undirected(CreatedEdges) = GridEdges(s)
                /\ (topo_call.creator = "PlaygroundAPI._create_coupling_map" =>
                       /\ topo_result.value.grid_dim_rows = s
                       /\ topo_result.value.grid_dim_cols = s)
    /\ (topo_call.creator = "benchmark.create_grid_coupling_map"
          /\ topo_call.args[1] >= 1) =>
          LET n == topo_call.args[1] IN
          /\ topo_result.raised = "none"
          /\ \E s \in 1..n :
                /\ s * s >= n
                /\ (s - 1) * (s - 1) < n
                /\ topo_result.value.num_qubits = s * s
                /\ Undirected(topo_result.value.edges) = GridEdges(s)
    /\ (topo_call.creator = "create_nxn_grid_coupling_map"
          /\ topo_call.args[1] >= 1) =>
          LET s  == topo_call.args[1]
              cm == topo_result.value[1]
          IN /\ topo_result.raised = "none"
             /\ topo_result.value[2] = s * s
             /\ Undirected(Range(cm)) = GridEdges(s)
             /\ Len(cm) = Cardinality(GridEdges(s))
             /\ \A k \in 1..Len(cm) :
                   cm[k][2] = cm[k][1] + 1 \/ cm[k][2] = cm[k][1] + s

\* a grid was created for a size that is not a square: the side is rounded up
C14_Witness ==
    /\ CreatedByName("grid")
    /\ topo_call.args[2] >= 5
    /\ topo_result.raised = "none"
    /\ topo_result.value.num_qubits > topo_call.args[2]

\* the last call asked a creator for a heavy-hex lattice of a given size
HeavyHexBySize ==
    \/ CreatedByName("heavy_hex")
    \/ topo_call.creator = "benchmark.create_heavy_hex_coupling_map"

HeavyHexRequested ==
    IF topo_call.creator = "benchmark.create_heavy_hex_coupling_map"
    THEN topo_call.args[1] ELSE topo_call.args[2]

\* d is the smallest odd distance whose lattice has at least n qubits
SmallestOddDistance(d, n) ==
    /\ d >= 1
    /\ d % 2 = 1
    /\ HeavyHexSize(d) >= n
    /\ \A e \in 1..(d - 1) : e % 2 = 1 => HeavyHexSize(e) < n

\* C15: for n >= 1 every heavy-hex creator (TopologyFactory, the playground,
\* the benchmark helper) chooses the smallest odd distance whose lattice has
\* at least n qubits.
C15_SmallestOddDistance ==
    (HeavyHexBySize /\ HeavyHexRequested >= 1) =>
        /\ topo_result.raised = "none"
        /\ SmallestOddDistance(topo_result.value.distance, HeavyHexRequested)

\* the functions of coupling_map_generator.py
GeneratorCreators == {"create_ring_coupling_map", "create_nxn_grid_coupling_map",
                      "create_heavy_hex_coupling_map"}

\* the last call asked for a topology of size (or distance) n <= 0, or for a
\* heavy-hex lattice of an explicit even distance
MalformedRequest ==
    \/ topo_call.creator \in GeneratorCreators /\ topo_call.args[1] <= 0
    \/ topo_call.creator = "create_heavy_hex_coupling_map" /\ topo_call.args[1] % 2 = 0
    \/ /\ topo_call.creator \in {"TopologyFactory.create",
                                 "PlaygroundAPI._create_coupling_map"}
       /\ topo_call.args[1] \in TopologyTypes \ {"custom"}
       /\ topo_call.args[2] <= 0

\* C16: a malformed topology request (n <= 0 for any generator, an explicit
\* even distance for heavy-hex) fails with an error and returns no graph.
C16_MalformedRejected ==
    MalformedRequest => topo_result.raised # "none" /\ topo_result.value = <<>>

\* the core a qubit of the modular device belongs to
CoreOf(q, qubits_per_core) == q \div qubits_per_core

\* C17: for num_cores >= 1 and qubits_per_core >= 1 every inter-core link of
\* the modular generator is a coupling edge joining two different,
\* ring-adjacent cores (the last qubit of core c to the first qubit of core
\* (c+1) mod num_cores), and every other edge stays inside one core.
C17_InterCoreLinks ==
    topo_call.creator = "create_modular_grid_topology" =>
        LET num_cores       == topo_call.args[1]
            qubits_per_core == topo_call.args[2]
            edges           == topo_result.value[1]
            links           == topo_result.value[2]
        IN /\ topo_result.raised = "none"
           /\ Range(links) \subseteq Range(edges)
           /\ \A k \in 1..Len(links) :
                 LET cu == CoreOf(links[k][1], qubits_per_core)
                     cv == CoreOf(links[k][2], qubits_per_core)
                 IN /\ cu # cv
                    /\ cv = (cu + 1) % num_cores
                    /\ links[k][1] = cu * qubits_per_core + qubits_per_core - 1
                    /\ links[k][2] = cv * qubits_per_core
           /\ \A e \in Range(edges) :
                 {e[1], e[2]} \notin Undirected(Range(links)) =>
                     CoreOf(e[1], qubits_per_core) = CoreOf(e[2], qubits_per_core)

\* ------------------------------------------------------ visualizer claims
\* the error visualize() raises for an empty collection
NoCircuitsAdded ==
    "ValueError: No circuits added. Use add_circuit() to add circuits before visualizing."

\* visualize() returned a bundle
BundleReturned == last_call = "visualize" /\ viz_result.raised = "none"

Bundle == viz_result.value

\* C18: visualize() fails with the empty-collection error exactly when the
\* collection is empty (no add_circuit since construction or since the last
\* clear_circuits()); it then produces no bundle and launches nothing.
C18_EmptyCollectionFails ==
    last_call = "visualize" =>
        /\ (added = <<>>) <=> (viz_result.raised = NoCircuitsAdded)
        /\ (circuits = <<>>) <=> (added = <<>>)
        /\ added = <<>> => viz_result.value = <<>> /\ launched_data = NotCalled
        /\ viz_result.raised = "none" => launched_data = Return(Bundle)

\* visualize() was called on an empty collection and failed
C18_Witness ==
    /\ last_call = "visualize"
    /\ circuits = <<>>
    /\ viz_result.raised = NoCircuitsAdded
    /\ launched_data = NotCalled

\* the name the k-th add_circuit call gives its record
ExpectedName(call, k) ==
    IF call.algorithm_name # <<>> THEN call.algorithm_name
    ELSE <<IF call.coupling_map.type = "NoneType" THEN "Logical" ELSE "Compiled",
           " Circuit ", ToString(k)>>

\* C19: the collection, and the bundle visualize() returns, hold exactly one
\* record per add_circuit call since the last clear, in insertion order, with
\* no deduplication; total_circuits is the number of records.
C19_OneRecordPerAdd ==
    /\ Len(circuits) = Len(added)
    /\ \A k \in 1..Len(added) :
          /\ circuits[k].circuit = added[k].circuit
          /\ circuits[k].coupling_map = added[k].coupling_map
          /\ circuits[k].algorithm_name = ExpectedName(added[k], k)
    /\ BundleReturned =>
          /\ Len(Bundle.circuits) = Len(added)
          /\ Bundle.total_circuits = Len(Bundle.circuits)
          /\ \A k \in 1..Len(added) :
                /\ Bundle.circuits[k].algorithm_name = ExpectedName(added[k], k)
                /\ Bundle.circuits[k].circuit_stats.original_gates
                      = Len(added[k].circuit.data)
                /\ (Bundle.circuits[k].circuit_type = "logical")
                      <=> (added[k].coupling_map.type = "NoneType")

\* the same circuit was added twice and the bundle holds both records
C19_Witness ==
    /\ BundleReturned
    /\ Len(added) = 2
    /\ added[1] = added[2]
    /\ Len(Bundle.circuits) = 2
    /\ Bundle.total_circuits = 2

\* the device edges an add_circuit call supplied
SuppliedEdges(coupling_map) ==
    CASE coupling_map.type \in {"list", "CouplingMap"} -> coupling_map.edges
      [] coupling_map.type = "dict" ->
            IF "coupling_map" \in DOMAIN coupling_map.items
            THEN coupling_map.items.coupling_map ELSE <<>>
      [] OTHER -> <<>>

\* C20: an entry added without a coupling map gives a record of kind logical
\* with a schedule, no routing_info and an empty device edge list; an entry
\* added with a coupling map (list, CouplingMap or dictionary) gives a record
\* of kind compiled with a schedule, routing_info and the supplied device
\* edges; nothing else decides the kind.
C20_KindFollowsCouplingMap ==
    BundleReturned =>
        \A k \in 1..Len(Bundle.circuits) :
            LET record == Bundle.circuits[k]
                cm == added[k].coupling_map
            IN IF cm.type = "NoneType"
               THEN /\ record.circuit_type = "logical"
                    /\ "routing_info" \notin DOMAIN record
                    /\ "interaction_graph_ops_per_slice" \in DOMAIN record.circuit_info
                    /\ Len(record.circuit_info.interaction_graph_ops_per_slice)
                          = record.circuit_stats.depth
                    /\ record.device_info.connectivity_graph_coupling_map = <<>>
               ELSE /\ cm.type \in {"list", "CouplingMap", "dict"}
                    /\ record.circuit_type = "compiled"
                    /\ "routing_info" \in DOMAIN record
                    /\ Len(record.routing_info.routing_ops_per_slice)
                          = record.circuit_stats.depth
                    /\ "compiled_interaction_graph_ops_per_slice"
                          \in DOMAIN record.circuit_info
                    /\ Len(record.circuit_info.compiled_interaction_graph_ops_per_slice)
                          = record.circuit_stats.depth
                    /\ record.device_info.connectivity_graph_coupling_map
                          = SuppliedEdges(cm)

\* a bundle with a logical record and a compiled record of the same circuit,
\* the compiled one with device edges
C20_Witness ==
    /\ BundleReturned
    /\ Len(added) = 2
    /\ added[1].circuit = added[2].circuit
    /\ Bundle.circuits[1].circuit_type = "logical"
    /\ Bundle.circuits[2].circuit_type = "compiled"
    /\ Bundle.circuits[2].device_info.connectivity_graph_coupling_map # <<>>

\* the last call surfaced an error met while building a record
RecordBuildFailed ==
    /\ last_call \in {"add_circuit", "visualize"}
    /\ viz_result.raised \notin {"none", NoCircuitsAdded}

\* C21: when building a record fails (a coupling_map of an unsupported type)
\* the error is surfaced and the failing record is not part of the collection
\* afterwards, while the records added before stay: no entry that cannot be
\* built is left in the collection.
C21_FailedRecordNotKept ==
    RecordBuildFailed =>
        \A k \in 1..Len(circuits) :
            QuvisVisualizer_process_circuit(circuits[k]).raised = "none"

\* the add_circuit call was given settings of its own
HasOwnSettings(call) == "settings" \in DOMAIN call.kwargs

\* C22: a circuit added with its own settings exports exactly those settings
\* in its record, a circuit added without settings carries none of its own,
\* and the bundle has root settings (the session-level settings); values are
\* passed through unchanged.
C22_SettingsPerCircuit ==
    BundleReturned =>
        /\ "settings" \in DOMAIN Bundle
        /\ \A k \in 1..Len(Bundle.circuits) :
              IF HasOwnSettings(added[k])
              THEN /\ "settings" \in DOMAIN Bundle.circuits[k]
                   /\ Bundle.circuits[k].settings = to_dict(added[k].kwargs.settings)
              ELSE "settings" \notin DOMAIN Bundle.circuits[k]

\* C23: a settings bundle holds recognized option keys only: an unknown key
\* given to VisualizerSettings, or as an extra keyword to add_circuit or
\* visualize_circuit, is rejected with an error and never appears in the
\* exported bundle.
C23_UnknownKeysRejected ==
    /\ (last_call = "VisualizerSettings"
          /\ ~(DOMAIN last_args.kwargs \subseteq DOMAIN VisualizerSettingsDefaults)) =>
          viz_result.raised # "none"
    /\ (last_call \in {"add_circuit", "visualize_circuit"}
          /\ ~(DOMAIN last_args.kwargs \subseteq {"settings"})) =>
          viz_result.raised # "none"
    /\ (last_call \in {"visualize", "visualize_circuit"} /\ viz_result.raised = "none") =>
          \A k \in 1..Len(Bundle.circuits) :
              DOMAIN Bundle.circuits[k].algorithm_params \subseteq {"settings"}

\* the last call returned a bundle
LibraryBundleReturned == last_call = "visualize_circuit" /\ viz_result.raised = "none"

\* C26: visualize_circuit(circuit, coupling_map, ...) returns data holding
\* both a logical and a compiled version of the circuit: two records, one of
\* each kind.
C26_LogicalAndCompiled ==
    LibraryBundleReturned =>
        /\ Len(Bundle.circuits) = 2
        /\ Bundle.total_circuits = 2
        /\ {Bundle.circuits[k].circuit_type : k \in 1..Len(Bundle.circuits)}
              = {"logical", "compiled"}

MalformedDeviceData(device_data) ==
    \/ "coupling_map" \notin DOMAIN device_data
    \/ "num_qubits" \notin DOMAIN device_data
    \/ device_data.num_qubits <= 0

\* C24: an external coupling-map record that lacks coupling_map or num_qubits
\* (or whose num_qubits is not a positive integer) is rejected by every
\* consumer: validate_coupling_map turns it down, and no bundle is produced
\* from a collection holding a circuit added with such a record.
C24_MalformedDeviceDataRejected ==
    \A k \in 1..Len(added) :
        (added[k].coupling_map.type = "dict"
            /\ MalformedDeviceData(added[k].coupling_map.items)) =>
            /\ ~validate_coupling_map(added[k].coupling_map.items,
                                      Len(added[k].circuit.qubits))
            /\ ~BundleReturned

SupportedAlgorithms ==
    {get_supported_algorithms[i] : i \in DOMAIN get_supported_algorithms}

SupportedTopologies ==
    {get_supported_topologies[i] : i \in DOMAIN get_supported_topologies}

CircuitCreators == {"PlaygroundAPI._create_circuit", "CircuitFactory.create"}

NamedTopologyCreators ==
    {"PlaygroundAPI._create_coupling_map", "TopologyFactory.create"}

\* C25: a creation request naming an algorithm or topology outside the
\* listed supported set fails with ValueError, and one naming a listed
\* algorithm or topology (for a size of at least one qubit) succeeds: the
\* names get_supported_algorithms / get_supported_topologies list are exactly
\* the names the creators accept.
C25_SupportedNamesExactlyAccepted ==
    /\ topo_call.creator \in CircuitCreators =>
          IF topo_call.args[1] \in SupportedAlgorithms
          THEN topo_call.args[2] >= 1 => topo_result.raised = "none"
          ELSE topo_result.raised = "ValueError"
    /\ topo_call.creator \in NamedTopologyCreators =>
          IF topo_call.args[1] \in SupportedTopologies
          THEN topo_call.args[2] >= 1 => topo_result.raised = "none"
          ELSE topo_result.raised = "ValueError"

C25_Witness ==
    \/ /\ topo_call.creator = "PlaygroundAPI._create_circuit"
       /\ topo_call.args = <<"invalid", 3>>
       /\ topo_result.raised = "ValueError"
    \/ /\ topo_call.creator = "PlaygroundAPI._create_circuit"
       /\ topo_call.args = <<"ghz", 3>>
       /\ topo_result.raised = "none"
       /\ Len(topo_result.value.qubits) = 3
       /\ Len(topo_result.value.data) = 3

\* number of positions of ops holding op
Occurrences(ops, op) == Cardinality({i \in 1..Len(ops) : ops[i] = op})

IsPermutation(a, b) ==
    /\ Len(a) = Len(b)
    /\ \A i \in 1..Len(a) : Occurrences(a, a[i]) = Occurrences(b, a[i])

\* C27: the slice schedulers conserve operations: the slices, flattened,
\* are a permutation of the input operation list (names and qubit lists
\* unchanged, nothing dropped, repeated or invented), so the slice sizes sum
\* to the number of input operations.
C27_OperationsConserved ==
    /\ Processed => IsPermutation(Flatten(Schedule), ProgramOps)
    /\ (pc = "done" /\ generator_slices.raised = "none") =>
          IsPermutation(Flatten(generator_slices.value), ProgramOps)

\* both schedulers have sliced a circuit that repeats an operation
C27_Witness ==
    /\ pc = "done"
    /\ Processed
    /\ generator_slices.raised = "none"
    /\ Len(ProgramOps) = 3
    /\ ProgramOps[1] = ProgramOps[2]
    /\ Len(Flatten(Schedule)) = 3
    /\ Len(Flatten(generator_slices.value)) = 3

SparseRouting == extract_routing_operations_sparse(transpiled_circuit)

\* C28: the routing figures of one compiled circuit agree: routing_depth and
\* swap_count of the analyzer's report equal the routing_depth and
\* total_swap_count of extract_routing_operations_per_slice and of
\* extract_routing_operations_sparse, and routing_depth is 0 when the
\* compiled circuit has no routing operation.
C28_RoutingFiguresAgree ==
    Processed =>
        /\ RoutingAnalysis.swap_count
              = compiled_circuit_data.value.routing_info.total_swap_count
        /\ RoutingAnalysis.routing_depth
              = compiled_circuit_data.value.routing_info.routing_depth
        /\ SparseRouting.raised = "none"
        /\ RoutingAnalysis.swap_count = SparseRouting.value[2]
        /\ RoutingAnalysis.routing_depth = SparseRouting.value[3]
        /\ (RoutingOpCount = 0 => RoutingAnalysis.routing_depth = 0)

\* C29: in every compiled record of a returned bundle the device info is
\* self-consistent: every endpoint of every edge of
\* connectivity_graph_coupling_map lies in [0, num_qubits_on_device), and
\* num_qubits_on_device is at least the circuit's qubit count.
C29_DeviceInfoConsistent ==
    BundleReturned =>
        \A k \in 1..Len(Bundle.circuits) :
            Bundle.circuits[k].circuit_type = "compiled" =>
                LET device_info == Bundle.circuits[k].device_info
                    edges == device_info.connectivity_graph_coupling_map
                IN /\ \A e \in 1..Len(edges) : \A j \in 1..Len(edges[e]) :
                          /\ 0 <= edges[e][j]
                          /\ edges[e][j] < device_info.num_qubits_on_device
                   /\ device_info.num_qubits_on_device
                          >= Bundle.circuits[k].circuit_info.num_qubits

\* C30: whenever _launch_visualization returns from a call in which the
\* temporary data file was written, the file no longer exists and a server
\* process the call started has been terminated or has exited.
C30_LaunchCleansUp ==
    (launch_pc = "returned" /\ written = "complete") =>
        /\ data_file = "absent"
        /\ process \in {"none", "terminated", "exited"}

====
